---- MODULE Spec2Model ----
(***************************************************************************)
(* Type-D-XL expansion firmware: the shared SMBus guard, the sensor poller *)
(* (xbox_smbus_poll.cpp), the extended status sampler (smbus_ext.cpp), the *)
(* configuration-memory reader with HDD key recovery (eeprom_min.cpp) and  *)
(* the sensor cache (cache_manager.cpp).                                   *)
(*                                                                         *)
(* The three bus users are modelled as concurrent tasks.  A task's         *)
(* operation is split at the points where another task can observe or      *)
(* change the shared guard: the acquire, the bus transactions made while   *)
(* the guard is held, and the release.                                     *)
(***************************************************************************)
EXTENDS Integers, Sequences, FiniteSets, TLC

\* ------------------------------------------------------------------ bounds
MaxNow == 24000          \* millis() is explored up to this value
MaxLockTries == 2        \* iterations of lock_with_timeout's loop explored
MaxPlain == 3            \* factory plaintexts per (key, length) pair in SpecKey

\* --------------------------------------------------------- program constants
SMBUS_STARTUP_GRACE_MS == 10000
SMBUS_MIN_TICK_MS == 500
SMBUS_BACKOFF_MS_BASE == 8000
SMBUS_16_DETECT_DELAY_MS == 12000
SMBUS_EXT_STARTUP_GRACE_MS == 10000
SMBUS_EXT_MIN_PERIOD_MS == 4000
SMBUS_EXT_BACKOFF_MS == 9000
XCAL_MODE_PROBE_PERIOD_MS == 12000
EEPROM_REBROADCAST_MS == 10000
ENC_CONEXANT == 69
ENC_FOCUS == 106
ENC_XCALIBUR == 112
OFF_FACTORY == 20
LEN_FACTORY == 28
OFF_CHECKSUM == 0
LEN_CHECKSUM == 20

Tasks == {"poll", "ext", "ee"}

\* ------------------------------------------------------- integer helpers
RECURSIVE BitXor(_, _, _)
\* a ^ b on n-bit operands
BitXor(a, b, n) ==
  IF n = 0 THEN 0
  ELSE ((a + b) % 2) + 2 * BitXor(a \div 2, b \div 2, n - 1)

\* ------------------------------------------------- eeprom_min.cpp helpers
HexDigits == <<"0","1","2","3","4","5","6","7","8","9","A","B","C","D","E","F">>

nyb_to_hex(v) == HexDigits[(v % 16) + 1]

\* two uppercase hex characters per byte, high nibble first
toHexUpper(src) ==
  [i \in 1..(2 * Len(src)) |->
     IF i % 2 = 1 THEN nyb_to_hex(src[(i + 1) \div 2] \div 16)
                  ELSE nyb_to_hex(src[i \div 2])]

\* mac: 6 bytes -> "XX:XX:XX:XX:XX:XX" (17 characters)
macToStr(mac) ==
  [i \in 1..17 |->
     IF i % 3 = 0 THEN ":"
     ELSE IF i % 3 = 1 THEN nyb_to_hex(mac[((i - 1) \div 3) + 1] \div 16)
     ELSE nyb_to_hex(mac[((i - 2) \div 3) + 1])]

regionName(r) ==
  IF r % 256 = 0 THEN "NTSC-U"
  ELSE IF r % 256 = 1 THEN "NTSC-J"
  ELSE IF r % 256 = 2 THEN "PAL"
  ELSE "UNKNOWN"

RECURSIVE cleanSerialFrom(_, _)
\* characters kept from src[i..]: stop at NUL/0xFF, fold a-z to A-Z,
\* keep A-Z and 0-9 (as character codes)
cleanSerialFrom(src, i) ==
  IF i > Len(src) THEN <<>>
  ELSE IF src[i] = 0 \/ src[i] = 255 THEN <<>>
  ELSE LET c == IF src[i] >= 97 /\ src[i] <= 122 THEN src[i] - 32 ELSE src[i]
       IN  IF (c >= 65 /\ c <= 90) \/ (c >= 48 /\ c <= 57)
           THEN <<c>> \o cleanSerialFrom(src, i + 1)
           ELSE cleanSerialFrom(src, i + 1)

cleanSerial(src) == cleanSerialFrom(src, 1)

\* --- tiny RC4 (state: S indexed 0..255, i, j)
\* one iteration n of the key-scheduling loop on st = [S, j]
rc4_ksa_step(st, n, key) ==
  LET j2 == (st.j + st.S[n] + key[(n % Len(key)) + 1]) % 256
  IN  [S |-> [st.S EXCEPT ![n] = st.S[j2], ![j2] = st.S[n]], j |-> j2]

\* the single element of a one-element set
The(S) == CHOOSE r \in S : TRUE

RECURSIVE rc4_ksa(_, _, _, _)
\* iterations lo..hi-1 of the key-scheduling loop, in order
rc4_ksa(st, lo, hi, key) ==
  IF hi - lo = 1 THEN rc4_ksa_step(st, lo, key)
  ELSE LET mid == (lo + hi) \div 2
       IN  The({rc4_ksa(half, mid, hi, key) : half \in {rc4_ksa(st, lo, mid, key)}})

rc4_init(key) ==
  [S |-> rc4_ksa([S |-> [n \in 0..255 |-> n], j |-> 0], 0, 256, key).S,
   i |-> 0, j |-> 0]

RECURSIVE rc4_crypt(_, _, _, _)
\* XORs buf[n..len] (1-based) with the key stream; returns the buffer
rc4_crypt(st, buf, n, len) ==
  IF n > len THEN buf
  ELSE LET i  == (st.i + 1) % 256
           j  == (st.j + st.S[i]) % 256
           S2 == [st.S EXCEPT ![i] = st.S[j], ![j] = st.S[i]]
           K  == S2[(S2[i] + S2[j]) % 256]
       IN  rc4_crypt([S |-> S2, i |-> i, j |-> j],
                     [buf EXCEPT ![n] = BitXor(buf[n], K, 8)], n + 1, len)

RECURSIVE WeightedSum(_, _, _, _)
\* sum of s[n] * (a*n + b) over n = i..Len(s)
WeightedSum(s, i, a, b) ==
  IF i > Len(s) THEN 0 ELSE s[i] * (a * i + b) + WeightedSum(s, i + 1, a, b)

\* hmac_sha1 wraps mbedtls_md_hmac, which is outside the repository: it is
\* modelled as a deterministic keyed function from (key, message) to 20
\* bytes.  The digest is deliberately weak (it depends on an 8-bit mix of
\* key and message) so that images validating under more than one
\* (key, length) pair exist within the explored inputs.
hmac_sha1(key, msg) ==
  LET d == (WeightedSum(key, 1, 1, 0) + WeightedSum(msg, 1, 2, 1)) % 251
  IN  [i \in 1..20 |-> (d * i + 7 * (i - 1)) % 256]

\* --- Published EEPROM RC4 keys per revision
EEPROM_KEY_V10 ==
  <<42,59,173,44,177,148,79,147,170,205,205,126,10,194,238,90>>
EEPROM_KEY_V11_14 ==
  <<29,243,92,131,142,201,182,252,189,246,97,171,79,6,51,228>>
EEPROM_KEY_V16 ==
  <<43,132,87,190,155,30,101,198,205,157,43,206,193,162,9,97>>

candidates == <<EEPROM_KEY_V10, EEPROM_KEY_V11_14, EEPROM_KEY_V16>>

kFactoryLens == <<28, 24>>

\* the 28-byte factory section of an image as the loop's scratch copy
FactoryOf(rom) == SubSeq(rom, OFF_FACTORY + 1, OFF_FACTORY + LEN_FACTORY)

ChecksumOf(rom) == SubSeq(rom, OFF_CHECKSUM + 1, OFF_CHECKSUM + LEN_CHECKSUM)

\* one (candidate k, length index li) trial: decrypt a copy of the factory
\* section and compare the recomputed HMAC with the stored checksum
TryPair(rom, k, li) ==
  LET chk    == ChecksumOf(rom)
      rc4key == hmac_sha1(candidates[k], chk)
      st     == rc4_init(rc4key)
      tmp    == rc4_crypt(st, FactoryOf(rom), 1, kFactoryLens[li])
      mac    == hmac_sha1(candidates[k], SubSeq(tmp, 1, kFactoryLens[li]))
  IN  [match |-> (mac = chk), hex |-> toHexUpper(SubSeq(tmp, 9, 24)),
       tmp |-> tmp]

RECURSIVE RecoveryLoopNoStop(_, _, _)
\* the loops without their && !s_have_hdd conditions: every pair is
\* evaluated and a later match overwrites an earlier one
RecoveryLoopNoStop(r, k, li) ==
  IF k > 3 THEN r
  ELSE IF li > 2 THEN RecoveryLoopNoStop(r, k + 1, 1)
  ELSE LET t  == TryPair(r.rom, k, li)
           r2 == [rom   |-> r.rom,
                  have  |-> (t.match \/ r.have),
                  hex   |-> IF t.match THEN t.hex ELSE r.hex,
                  tried |-> Append(r.tried, <<k, kFactoryLens[li]>>)]
       IN  RecoveryLoopNoStop(r2, k, li + 1)

RECURSIVE RecoveryLoopInPlace(_, _, _)
\* the trial decrypting the factory section of the image itself instead of
\* the scratch copy tmp
RecoveryLoopInPlace(r, k, li) ==
  IF k > 3 \/ r.have THEN r
  ELSE IF li > 2 THEN RecoveryLoopInPlace(r, k + 1, 1)
  ELSE LET t  == TryPair(r.rom, k, li)
           r2 == [rom   |-> [i \in 1..256 |->
                               IF i > OFF_FACTORY /\ i <= OFF_FACTORY + LEN_FACTORY
                               THEN t.tmp[i - OFF_FACTORY] ELSE r.rom[i]],
                  have  |-> (t.match \/ r.have),
                  hex   |-> IF t.match THEN t.hex ELSE r.hex,
                  tried |-> Append(r.tried, <<k, kFactoryLens[li]>>)]
       IN  RecoveryLoopInPlace(r2, k, li + 1)

RECURSIVE RecoveryLoop(_, _, _)
\* for (k = 0; k < 3 && !s_have_hdd; ++k)
\*   for (li = 0; li < 2 && !s_have_hdd; ++li) ...
\* r = [rom, have, hex, tried]; tried lists the pairs evaluated, in order
RecoveryLoop(r, k, li) ==
  IF k > 3 \/ r.have THEN r
  ELSE IF li > 2 THEN RecoveryLoop(r, k + 1, 1)
  ELSE LET t  == TryPair(r.rom, k, li)
           r2 == [rom   |-> r.rom,
                  have  |-> (t.match \/ r.have),
                  hex   |-> IF t.match THEN t.hex ELSE r.hex,
                  tried |-> Append(r.tried, <<k, kFactoryLens[li]>>)]
       IN  RecoveryLoop(r2, k, li + 1)

\* the key recovery block of broadcastOnce, started from the statics
\* (s_have_hdd, s_hdd_hex) as they are
KeyRecovery(rom, have0, hex0) ==
  RecoveryLoop([rom |-> rom, have |-> have0, hex |-> hex0, tried |-> <<>>], 1, 1)



\* --- base64::encode (ESP32 core), standard alphabet with '=' padding
B64Chars ==
  <<"A","B","C","D","E","F","G","H","I","J","K","L","M","N","O","P",
    "Q","R","S","T","U","V","W","X","Y","Z","a","b","c","d","e","f",
    "g","h","i","j","k","l","m","n","o","p","q","r","s","t","u","v",
    "w","x","y","z","0","1","2","3","4","5","6","7","8","9","+","/">>

Base64Encode(src) ==
  LET n == Len(src)
      B(i) == IF i <= n THEN src[i] ELSE 0
      Quad(g, c) ==   \* character c (1..4) of group g (0-based)
        LET b1 == B(3 * g + 1)
            b2 == B(3 * g + 2)
            b3 == B(3 * g + 3)
        IN  IF c = 1 THEN B64Chars[(b1 \div 4) + 1]
            ELSE IF c = 2 THEN B64Chars[((b1 % 4) * 16 + (b2 \div 16)) + 1]
            ELSE IF c = 3 THEN (IF 3 * g + 2 > n THEN "="
                                ELSE B64Chars[((b2 % 16) * 4 + (b3 \div 64)) + 1])
            ELSE (IF 3 * g + 3 > n THEN "=" ELSE B64Chars[(b3 % 64) + 1])
  IN  [i \in 1..(4 * ((n + 2) \div 3)) |-> Quad((i - 1) \div 4, ((i - 1) % 4) + 1)]

\* ------------------------------------------ configuration-memory contents
\* A console's EEPROM image is built the way the console builds it: the
\* checksum is the HMAC of the factory plaintext under the revision key and
\* the factory section is RC4-encrypted under the key derived from it.
\* p = [k: revision key 1..3, L: validated length, n: plaintext number,
\*      pad: value of the 4 pad bytes]
FactoryPlain(n, pad) ==
  [i \in 1..28 |->
     IF i <= 8 THEN (n * 7 + (i - 1) * 13) % 256
     ELSE IF i <= 24 THEN (n * 31 + (i - 9) * 17 + 5) % 256
     ELSE pad]

SerialBytes(n) == <<49, 50, 97, 45, 48 + (n % 10), 53, 54, 55, 0, 90, 90, 90>>

MakeImage(p) ==
  LET plain  == FactoryPlain(p.n, p.pad)
      chk    == hmac_sha1(candidates[p.k], SubSeq(plain, 1, p.L))
      cipher == rc4_crypt(rc4_init(hmac_sha1(candidates[p.k], chk)), plain, 1, p.L)
  IN  [i \in 1..256 |->
         IF i <= 20 THEN chk[i]
         ELSE IF i <= 20 + p.L THEN cipher[i - 20]
         ELSE IF i <= 48 THEN 90 + p.pad
         ELSE IF i >= 53 /\ i <= 64 THEN SerialBytes(p.n)[i - 52]
         ELSE IF i >= 65 /\ i <= 70 THEN (p.n * 16 + i) % 256
         ELSE IF i = 89 THEN p.n % 4
         ELSE 0]

\* images that validate under exactly one key, under both lengths of one
\* key (pad 0, length 28), and under two different keys (the last four)
ImageParams ==
  [k : 1..3, L : {28, 24}, n : 0..(MaxPlain - 1), pad : {0, 9}]
  \cup {[k |-> 2, L |-> 28, n |-> 34, pad |-> 9],
        [k |-> 3, L |-> 28, n |-> 51, pad |-> 0],
        [k |-> 1, L |-> 28, n |-> 46, pad |-> 0],
        [k |-> 3, L |-> 24, n |-> 51, pad |-> 0]}

\* images whose checksum no candidate reproduces: erased and zeroed parts
BlankImages == {[i \in 1..256 |-> 255], [i \in 1..256 |-> 0]}

KeyImages == {MakeImage(p) : p \in ImageParams} \cup BlankImages

\* the image read where the three bus users run concurrently
BusImages == {MakeImage([k |-> 2, L |-> 24, n |-> 1, pad |-> 0])}

\* the images read where the reader's frames are examined: keys recovered
\* under the second and the first candidate, and no key
EEImages ==
  {MakeImage([k |-> 2, L |-> 24, n |-> 1, pad |-> 0]),
   MakeImage([k |-> 1, L |-> 28, n |-> 2, pad |-> 9]),
   [i \in 1..256 |-> 255]}


\* The explored images with their recovery outcome from cleared statics and
\* their Base64 text, computed once; the actions look an image up here and
\* fall back to the computation for any other buffer contents.
AllImages == KeyImages \cup BusImages \cup EEImages

RecoveryOfImage == [im \in AllImages |-> KeyRecovery(im, FALSE, <<>>)]

Base64OfImage == [im \in AllImages |-> Base64Encode(im)]

\* the key recovery block of broadcastOnce on buffer rom
RunKeyRecovery(rom, have0, hex0) ==
  IF ~have0 /\ hex0 = <<>> /\ rom \in AllImages THEN RecoveryOfImage[rom]
  ELSE KeyRecovery(rom, have0, hex0)

\* base64::encode(s_rom, 256)
EncodeRom(rom) ==
  IF rom \in AllImages THEN Base64OfImage[rom] ELSE Base64Encode(rom)

\* ================================================================= state
VARIABLES
  now,                      \* millis()
  g_smbus_mutex,            \* owner of the FreeRTOS mutex: a task or "none"
  g_smbus_locked,           \* legacy flag, the only guard eeprom_min.cpp uses
  pc,                       \* position of each task inside its operation
  lastBus,                  \* the most recent bus read: who, the guard then,
                            \* and whether the reader had sampled the lines
                            \* idle (wait_bus_free) before it
  \* --- xbox_smbus_poll.cpp
  g_first_ms, g_next_allowed_ms, g_err_streak, g_rr_step,
  g_is16_known, g_is16_cached, stuck_streak, g_last_smbus_activity_ms,
  status,                   \* the caller's XboxSMBusStatus
  statusRaw,                \* raw register value behind each temperature
                            \* field; fan: the byte of the latest fan read
  poll_now, poll_ret, poll_path,
  poll_obs,                 \* what the latest tick met, kept for the
                            \* consoles watched (hw.track): rd, the byte of
                            \* its sensor read (-1 failed, -2 none); fails,
                            \* failed ticks in a row; idle, the lines were
                            \* found idle; step, the round-robin step of
                            \* the latest tick that got to it (-1: none);
                            \* regs, the SMC registers the tick read;
                            \* probes, 1.6 probes so far; and, from the idle
                            \* check: last3, the latest samples of the
                            \* running wait; wedged, waits in a row that
                            \* timed out; reinitRun, that number when Wire
                            \* was last re-initialised (-1: never)
  \* --- cache_manager.cpp
  cache,                    \* XboxStatus cache
  cacheRaw,                 \* raw register value behind each cached temperature
  \* --- smbus_ext.cpp
  g_ext_first_ms, g_ext_next_allowed_ms, s_encoder_known, s_encoder_cache,
  s_xcal_mode_known, s_xcal_mode_code, s_xcal_next_probe_ms,
  ext_now, ext_path, extPacket,
  hw,                       \* the console the device is plugged into
  detectProbes,             \* addresses probed by encoder detection so far
  detectAnswers,            \* addresses that answered when detection ran
  rsIssued,                 \* a repeated-start read has been issued
  extFrames,                \* Expansion frames sent so far
  ext_obs,                  \* what the latest pass of a watched console
                            \* (hw.track) did: reads, the reads it issued
                            \* in order; failed, the base reads that
                            \* failed; ver, the console-version byte (-1
                            \* failed, -2 not read); probe, the outcome of
                            \* its mode probe; and over all passes: modeAt,
                            \* the time of the latest mode read; modeGap,
                            \* the shortest time between two mode reads;
                            \* everOk, a mode probe has succeeded
  w_fn,                     \* the bounded wait in progress: lock, wait or none
  w_timeout,                \* its ms_timeout / max_wait_ms argument
  w_elapsed,                \* microseconds since its t0 / start
  w_tried,                  \* it has called try_lock_smbus() at least once
  w_stable,                 \* wait_bus_free's stable counter
  w_ret,                    \* its return value, "running" until it returns
  try_ret,                  \* result of the last zero-wait smbus_acquire(0)
  nextDataCheck,            \* udp_stat.cpp: when the next data check is due
  nextIdBeacon,             \* udp_stat.cpp: when the next ID beacon is due
  g_last_sent,              \* udp_stat.cpp: the XboxStatus last sent
  coreFrames,               \* Core frames sent so far
  lastStatus,               \* udp_detect.cpp: the receiver's aggregate record
  gotPacket,                \* udp_detect.cpp: the receiver's update flag
  rxIn,                     \* the datagrams the last loop() found waiting
  rxTick,                   \* parity of the number of loop() calls
  pace,                     \* the pacing variables of the three tasks with
                            \* millis() as the 32-bit counter it is
  \* --- eeprom_min.cpp
  eeprom,                   \* contents of the console's 24C02
  s_read_done, s_have_rom, s_rom, s_have_hdd, s_hdd_hex, s_raw_b64,
  s_last_bcast,
  ee_tries, ee_off, ee_rc,  \* locals of lock_with_timeout / readAll
  readAllCalls,             \* number of readAll() invocations so far
  errFrames,                \* number of EE:ERR=READ_FAIL frames sent so far
  eeSent,                   \* kinds of EE frames sent so far
  lastBcast,                \* frames of the latest send_broadcasts_from_cache
  tried,                    \* (key, length) pairs evaluated by the latest recovery
  keyRuns, firstOutcome,    \* recovery runs so far, outcome of the first
  readAt                    \* millis() when the one-time read ended, -1 before

lockVars == <<g_smbus_mutex, g_smbus_locked>>

pollVars ==
  <<g_first_ms, g_next_allowed_ms, g_err_streak, g_rr_step, g_is16_known,
    g_is16_cached, stuck_streak, g_last_smbus_activity_ms, status, statusRaw,
    poll_now, poll_ret, poll_path, poll_obs>>

cacheVars == <<cache, cacheRaw>>

extVars ==
  <<g_ext_first_ms, g_ext_next_allowed_ms, s_encoder_known, s_encoder_cache,
    s_xcal_mode_known, s_xcal_mode_code, s_xcal_next_probe_ms,
    ext_now, ext_path, extPacket, hw, detectProbes, detectAnswers, rsIssued,
    extFrames, ext_obs>>

eeVars ==
  <<eeprom, s_read_done, s_have_rom, s_rom, s_have_hdd, s_hdd_hex, s_raw_b64,
    s_last_bcast, ee_tries, ee_off, ee_rc, readAllCalls, errFrames, eeSent,
    lastBcast, tried, keyRuns, firstOutcome, readAt>>

\* the bounded waits, as seen while one of them runs
waitVars == <<w_fn, w_timeout, w_elapsed, w_tried, w_stable, w_ret, try_ret>>

\* udp_stat.cpp
statVars == <<nextDataCheck, nextIdBeacon, g_last_sent, coreFrames>>

\* udp_detect.cpp, with the inputs of its last loop()
rxVars == <<lastStatus, gotPacket, rxIn, rxTick>>

\* everything outside the three bus users
auxVars == <<waitVars, statVars, rxVars, pace>>

vars == <<now, lockVars, pc, lastBus, pollVars, cacheVars, extVars, eeVars,
          auxVars>>

\* ============================================= eeprom_min.cpp: the reader
Frame(t, sn, mac, reg, hdd, raw) ==
  [t |-> t, sn |-> sn, mac |-> mac, reg |-> reg, hdd |-> hdd, raw |-> raw]

RawFrame(b64) == Frame("RAW", <<>>, <<>>, "", <<>>, b64)

HddFrame(hex) == Frame("HDD", <<>>, <<>>, "", hex, <<>>)

LabeledFrame(rom, hex, b64) ==
  Frame("LBL", cleanSerial(SubSeq(rom, 53, 64)), macToStr(SubSeq(rom, 65, 70)),
        regionName(rom[89]), hex, b64)

\* send_broadcasts_from_cache() with the HDD datagram sent unconditionally
CacheFramesHddAlways(have_rom, rom, have_hdd, hex, b64) ==
  IF ~have_rom THEN <<>>
  ELSE <<RawFrame(b64), HddFrame(hex), RawFrame(b64)>>
       \o (IF have_hdd THEN <<LabeledFrame(rom, hex, b64)>> ELSE <<>>)

\* send_broadcasts_from_cache() without the duplicate RAW datagram
CacheFramesNoDuplicate(have_rom, rom, have_hdd, hex, b64) ==
  IF ~have_rom THEN <<>>
  ELSE <<RawFrame(b64)>>
       \o (IF have_hdd THEN <<HddFrame(hex)>> ELSE <<>>)
       \o (IF have_hdd THEN <<LabeledFrame(rom, hex, b64)>> ELSE <<>>)

\* the datagrams of one send_broadcasts_from_cache(), in order
CacheFrames(have_rom, rom, have_hdd, hex, b64) ==
  IF ~have_rom THEN <<>>
  ELSE <<RawFrame(b64)>>
       \o (IF have_hdd THEN <<HddFrame(hex)>> ELSE <<>>)
       \o <<RawFrame(b64)>>
       \o (IF have_hdd THEN <<LabeledFrame(rom, hex, b64)>> ELSE <<>>)

FrameKinds(frames) == {frames[i].t : i \in DOMAIN frames}

\* try_lock_smbus() of eeprom_min.cpp: tests and sets the flag only
ee_try_lock_smbus == ~g_smbus_locked

\* readAll returning without unlock_smbus()
ee_unlock_skipped == UNCHANGED g_smbus_locked

\* unlock_smbus() of eeprom_min.cpp: clears the flag only
ee_unlock_smbus == g_smbus_locked' = FALSE

\* broadcastOnce going to the bus whenever no image is cached
NeedsReadEachCall == ~s_have_rom

\* whether broadcastOnce goes to the bus: if (!s_read_done) if (!s_have_rom)
NeedsRead == ~s_read_done /\ ~s_have_rom

\* broadcastOnce(): entry.  Either starts the one-time readAll() or
\* rebroadcasts from the cache.
EEBroadcastOnce ==
  /\ pc["ee"] = "idle"
  /\ IF NeedsRead
     THEN /\ pc' = [pc EXCEPT !["ee"] = "lockwait"]
          /\ ee_tries' = 0
          /\ readAllCalls' = readAllCalls + 1
          /\ UNCHANGED <<s_read_done, s_raw_b64, s_last_bcast, lastBcast, eeSent>>
     ELSE LET b64 == IF ~s_read_done /\ s_raw_b64 = <<>>
                     THEN EncodeRom(s_rom) ELSE s_raw_b64
              b64s == IF s_have_rom /\ b64 = <<>> THEN EncodeRom(s_rom) ELSE b64
              frames == CacheFrames(s_have_rom, s_rom, s_have_hdd, s_hdd_hex, b64s)
          IN  /\ s_read_done' = TRUE
              /\ s_raw_b64' = b64s
              /\ lastBcast' = IF s_have_rom THEN frames ELSE lastBcast
              /\ eeSent' = eeSent \cup FrameKinds(frames)
              /\ s_last_bcast' = now
              /\ UNCHANGED <<pc, ee_tries, readAllCalls>>
  /\ UNCHANGED <<now, auxVars, lockVars, lastBus, pollVars, cacheVars, extVars, eeprom,
                 s_have_rom, s_rom, s_have_hdd, s_hdd_hex, ee_off, ee_rc,
                 errFrames, tried, keyRuns, firstOutcome, readAt>>

\* the failure branch without s_read_done = true
EEReadFailedNoLatch ==
  /\ errFrames' = errFrames + 1
  /\ eeSent' = eeSent \cup {"ERR"}
  /\ s_read_done' = s_read_done
  /\ readAt' = now
  /\ pc' = [pc EXCEPT !["ee"] = "idle"]
  /\ UNCHANGED <<s_have_rom, s_have_hdd, s_hdd_hex, s_raw_b64, s_last_bcast,
                 lastBcast, tried, keyRuns, firstOutcome>>

\* the failure branch of broadcastOnce: one ERR frame, never retried
EEReadFailed ==
  /\ errFrames' = errFrames + 1
  /\ eeSent' = eeSent \cup {"ERR"}
  /\ s_read_done' = TRUE
  /\ readAt' = now
  /\ pc' = [pc EXCEPT !["ee"] = "idle"]
  /\ UNCHANGED <<s_have_rom, s_have_hdd, s_hdd_hex, s_raw_b64, s_last_bcast,
                 lastBcast, tried, keyRuns, firstOutcome>>

\* one iteration of lock_with_timeout(): try the flag, else delay(2)
EELockTry ==
  /\ pc["ee"] = "lockwait"
  /\ IF ee_try_lock_smbus
     THEN /\ g_smbus_locked' = TRUE
          /\ pc' = [pc EXCEPT !["ee"] = "read"]
          /\ ee_off' = 0
          /\ ee_rc' = 0
          /\ UNCHANGED <<ee_tries, errFrames, eeSent, s_read_done, s_have_rom,
                         s_have_hdd, s_hdd_hex, s_raw_b64, s_last_bcast,
                         lastBcast, tried, keyRuns, firstOutcome, readAt>>
     ELSE IF ee_tries + 1 < MaxLockTries
     THEN /\ ee_tries' = ee_tries + 1
          /\ UNCHANGED <<g_smbus_locked, pc, ee_off, ee_rc, errFrames, eeSent,
                         s_read_done, s_have_rom, s_have_hdd, s_hdd_hex,
                         s_raw_b64, s_last_bcast, lastBcast, tried, keyRuns,
                         firstOutcome, readAt>>
     ELSE /\ ee_tries' = 0
          /\ EEReadFailed
          /\ UNCHANGED <<g_smbus_locked, ee_off, ee_rc>>
  /\ UNCHANGED <<now, auxVars, g_smbus_mutex, lastBus, pollVars, cacheVars, extVars,
                 eeprom, s_rom, readAllCalls>>

\* the offsets at which a block read is let fail: the first, a middle and
\* the last block
FailOffsets == {0, 128, 240}

\* one readBlock(off, buf + off, 16) of readAll's loop
EEReadBlock ==
  /\ pc["ee"] = "read"
  /\ \E ok \in (IF ee_off \in FailOffsets THEN BOOLEAN ELSE {TRUE}) :
       IF ok
       THEN /\ s_rom' = [i \in 1..256 |->
                           IF i > ee_off /\ i <= ee_off + 16 THEN eeprom[i]
                           ELSE s_rom[i]]
            /\ ee_off' = ee_off + 16
            /\ pc' = [pc EXCEPT !["ee"] =
                        IF ee_off + 16 < 256 THEN "read" ELSE "unlock"]
            /\ UNCHANGED ee_rc
       ELSE /\ ee_rc' = -1
            /\ pc' = [pc EXCEPT !["ee"] = "unlock"]
            /\ UNCHANGED <<s_rom, ee_off>>
  /\ lastBus' = [who |-> "ee", locked |-> g_smbus_locked, owner |-> g_smbus_mutex,
                 idle |-> FALSE]
  /\ UNCHANGED <<now, auxVars, lockVars, pollVars, cacheVars, extVars, eeprom,
                 s_read_done, s_have_rom, s_have_hdd, s_hdd_hex, s_raw_b64,
                 s_last_bcast, ee_tries, readAllCalls, errFrames, eeSent,
                 lastBcast, tried, keyRuns, firstOutcome, readAt>>

\* the end of readAll (unlock_smbus) and the rest of broadcastOnce: the
\* failure frame, or key recovery, the snapshot flags and the first broadcast
EEFinish ==
  /\ pc["ee"] = "unlock"
  /\ ee_unlock_smbus
  /\ IF ee_rc # 0
     THEN EEReadFailed
     ELSE LET r      == RunKeyRecovery(s_rom, s_have_hdd, s_hdd_hex)
              b64    == IF s_raw_b64 = <<>> THEN EncodeRom(s_rom) ELSE s_raw_b64
              frames == CacheFrames(TRUE, s_rom, r.have, r.hex, b64)
          IN  /\ s_have_hdd' = r.have
              /\ s_hdd_hex' = r.hex
              /\ tried' = r.tried
              /\ keyRuns' = keyRuns + 1
              /\ firstOutcome' = <<r.have, r.hex>>
              /\ s_have_rom' = TRUE
              /\ s_raw_b64' = b64
              /\ s_read_done' = TRUE
              /\ lastBcast' = frames
              /\ eeSent' = eeSent \cup FrameKinds(frames)
              /\ s_last_bcast' = now
              /\ readAt' = now
              /\ pc' = [pc EXCEPT !["ee"] = "idle"]
              /\ UNCHANGED errFrames
  /\ ee_tries' = 0
  /\ ee_off' = 0
  /\ ee_rc' = 0
  /\ UNCHANGED <<now, auxVars, g_smbus_mutex, lastBus, pollVars, cacheVars, extVars,
                 eeprom, s_rom, readAllCalls>>

\* tick() rebroadcasting on every call
TickDueAlways(t, last) == TRUE

\* if (now - s_last_bcast >= EEPROM_REBROADCAST_MS)
TickDue(t, last) == t - last >= EEPROM_REBROADCAST_MS

\* tick(): periodic rebroadcast from the cache
EETick ==
  /\ pc["ee"] = "idle"
  /\ s_have_rom
  /\ TickDue(now, s_last_bcast)
  /\ LET b64    == IF s_raw_b64 = <<>> THEN EncodeRom(s_rom) ELSE s_raw_b64
         frames == CacheFrames(s_have_rom, s_rom, s_have_hdd, s_hdd_hex, b64)
     IN  /\ s_raw_b64' = b64
         /\ lastBcast' = frames
         /\ eeSent' = eeSent \cup FrameKinds(frames)
  /\ s_last_bcast' = now
  /\ UNCHANGED <<now, auxVars, lockVars, pc, lastBus, pollVars, cacheVars, extVars,
                 eeprom, s_read_done, s_have_rom, s_rom, s_have_hdd, s_hdd_hex,
                 ee_tries, ee_off, ee_rc, readAllCalls, errFrames, tried,
                 keyRuns, firstOutcome, readAt>>

\* the key recovery block of broadcastOnce applied to the image in s_rom,
\* starting from whatever the statics hold
KeyRun ==
  /\ keyRuns < 2
  /\ LET r == RunKeyRecovery(s_rom, s_have_hdd, s_hdd_hex)
     IN  /\ s_rom' = r.rom
         /\ s_have_hdd' = r.have
         /\ s_hdd_hex' = r.hex
         /\ tried' = r.tried
         /\ firstOutcome' = IF keyRuns = 0 THEN <<r.have, r.hex>> ELSE firstOutcome
  /\ keyRuns' = keyRuns + 1
  /\ UNCHANGED <<now, auxVars, lockVars, pc, lastBus, pollVars, cacheVars, extVars,
                 eeprom, s_read_done, s_have_rom, s_raw_b64, s_last_bcast,
                 ee_tries, ee_off, ee_rc, readAllCalls, errFrames, eeSent,
                 lastBcast, readAt>>


\* ===================================== xbox_smbus_poll.cpp: guard and poller
\* smbus_acquire(0) / try_lock_smbus(): xSemaphoreTake succeeds iff the
\* mutex is free; it does not look at g_smbus_locked
smbus_acquire_ok == g_smbus_mutex = "none"

\* smbus_release(): clear the flag, give the mutex
smbus_release ==
  /\ g_smbus_locked' = FALSE
  /\ g_smbus_mutex' = "none"

\* 100 + ((now & 0xFF) % 200)
PollJitter(t) == 100 + ((t % 256) % 200)

\* a backoff that does not double
PollBackoffFlat(streak) == SMBUS_BACKOFF_MS_BASE

\* SMBUS_BACKOFF_MS_BASE << (streak - 1), capped at 60 s
PollBackoff(streak) ==
  LET b == SMBUS_BACKOFF_MS_BASE * (2 ^ (streak - 1))
  IN  IF b > 60000 THEN 60000 ELSE b

\* the 1.6 board temperature correction: C -> F, * 0.8, F -> C, rounded
\* half away from zero, clamped to 0..120.  (36v - 160)/45 is the exact
\* value of c; no v makes c + 0.5 an integer.
Correct16(v) ==
  LET adj == IF 36 * v - 160 >= 0 THEN (72 * v - 275) \div 90 ELSE 0
  IN  IF adj < 0 THEN 0 ELSE IF adj > 120 THEN 120 ELSE adj

\* the fan range check letting every percentage-looking byte through
FanReadAcceptedTo100(rd) == rd # -1 /\ rd <= 100

\* the CPU temperature check without its range test
CpuReadAcceptedAny(rd) == rd # -1

\* range checks of the three round-robin reads (rd = -1: the read failed)
CpuReadAccepted(rd) == rd # -1 /\ rd < 120

BoardReadAccepted(rd) == rd # -1 /\ rd < 120

FanReadAccepted(rd) == rd # -1 /\ rd <= 50

\* a pacing test that lets every call through
TooEarlyNever(t, next) == FALSE

\* the pacing test at the head of poll() and of loop(): now <
\* g_next_allowed_ms, millis() < g_ext_next_allowed_ms
TooEarly(t, next) == t < next

\* a re-initialisation at every wedged observation
maybe_recover_wire_at_once(streak, free) ==
  [streak |-> 0, reinit |-> ~free]

\* maybe_recover_wire() after its wait_bus_free() returned free: the new
\* stuck_streak and whether Wire was re-initialised
maybe_recover_wire(streak, free) ==
  IF free THEN [streak |-> 0, reinit |-> FALSE]
  ELSE IF streak + 1 >= 3 THEN [streak |-> 0, reinit |-> TRUE]
  ELSE [streak |-> streak + 1, reinit |-> FALSE]

\* poll(): the pacing test and the acquire
PollEnter ==
  /\ pc["poll"] = "idle"
  /\ IF TooEarly(now, g_next_allowed_ms)
     THEN /\ poll_ret' = TRUE
          /\ UNCHANGED <<lockVars, pc, g_next_allowed_ms, poll_now, poll_path>>
     ELSE IF ~smbus_acquire_ok
     THEN /\ g_next_allowed_ms' = now + SMBUS_MIN_TICK_MS
          /\ poll_ret' = TRUE
          /\ poll_path' = "nolock"
          /\ UNCHANGED <<lockVars, pc, poll_now>>
     ELSE /\ g_smbus_mutex' = "poll"
          /\ g_smbus_locked' = TRUE
          /\ pc' = [pc EXCEPT !["poll"] = "locked"]
          /\ poll_now' = now
          /\ UNCHANGED <<g_next_allowed_ms, poll_ret, poll_path>>
  /\ UNCHANGED <<now, auxVars, lastBus, g_first_ms, g_err_streak, g_rr_step,
                 g_is16_known, g_is16_cached, stuck_streak,
                 g_last_smbus_activity_ms, status, statusRaw, poll_obs,
                 cacheVars, extVars, eeVars>>

\* the console's bus may misbehave in this tick: it has not settled yet, or
\* the trouble of the tick before goes on
BusNoisy == poll_now < hw.settled \/ g_err_streak > 0

\* a 1.6 probe that does not wait for the post-boot delay
DetectDueAtOnce(known, elapsed) == ~known

\* the one-shot 1.6 probe is due: !g_is16_known && (now - g_first_ms) >=
\* SMBUS_16_DETECT_DELAY_MS
DetectDue(known, elapsed) ==
  ~known /\ elapsed >= SMBUS_16_DETECT_DELAY_MS

\* g_rr_step++ on a uint8_t that skips 255
rr_next_short(step) == (step + 1) % 255

\* g_rr_step++ on a uint8_t
rr_next(step) == (step + 1) % 256

\* the SMC register read by round-robin step k (step 3 reads none)
StepRegs(k) ==
  CASE k = 0 -> {"cpu"} [] k = 1 -> {"board"} [] k = 2 -> {"fan"}
    [] OTHER -> {}

\* poll(): everything done while the guard is held, up to the return: the
\* idle check with maybe_recover_wire, the one-shot 1.6 probe, one
\* round-robin read, the pacing and unlock_smbus() -> smbus_release().
\* w1, w2, w3: results of the three wait_bus_free() calls;
\* det: the Xcalibur probe answered; rd: the sensor byte, -1 if the read
\* failed.
PollBody ==
  /\ pc["poll"] = "locked"
  /\ \E w1 \in (IF BusNoisy THEN BOOLEAN ELSE {TRUE}) :
     \E w2 \in (IF w1 THEN {TRUE} ELSE BOOLEAN),
        w3 \in (IF w1 THEN {TRUE} ELSE BOOLEAN),
        tr \in (IF g_is16_known THEN {TRUE} ELSE BOOLEAN),
        rd \in (IF BusNoisy THEN hw.vals \cup {-1} ELSE hw.calm) :
       LET ok1      == w1 \/ w3
           det      == ENC_XCALIBUR \in hw.acks /\ tr
           doDetect == ok1 /\ DetectDue(g_is16_known, poll_now - g_first_ms)
           is16     == IF doDetect THEN det ELSE g_is16_cached
           step     == g_rr_step % 4
           okRead   == CASE step = 0 -> CpuReadAccepted(rd)
                         [] step = 1 -> BoardReadAccepted(rd)
                         [] step = 2 -> FanReadAccepted(rd)
                         [] OTHER    -> TRUE
           ok       == ok1 /\ okRead
           didRead  == doDetect \/ (ok1 /\ step # 3)
           readOk   == (doDetect /\ det) \/ (ok1 /\ step # 3 /\ rd # -1)
           streak   == IF ok THEN 0
                       ELSE IF g_err_streak < 5 THEN g_err_streak + 1
                       ELSE g_err_streak
       IN  /\ stuck_streak' =
                IF w1 THEN stuck_streak
                ELSE maybe_recover_wire(stuck_streak, w2).streak
           /\ poll_obs' =
                IF ~hw.track THEN poll_obs
                ELSE [poll_obs EXCEPT
                        !.rd = IF ok1 /\ step # 3 THEN rd ELSE -2,
                        !.fails = IF ok THEN 0 ELSE poll_obs.fails + 1,
                        !.idle = ok1,
                        !.step = IF ok1 THEN step ELSE @,
                        !.regs = IF ok1 THEN StepRegs(step) ELSE {},
                        !.probes = IF doDetect THEN @ + 1 ELSE @]
           /\ g_is16_known' = (g_is16_known \/ doDetect)
           /\ g_is16_cached' = is16
           /\ g_rr_step' = IF ok1 THEN rr_next(g_rr_step) ELSE g_rr_step
           /\ status' =
                IF ~ok THEN status
                ELSE CASE step = 0 -> [status EXCEPT !.cpuTemp = rd]
                       [] step = 1 -> [status EXCEPT !.boardTemp =
                                         IF is16 THEN Correct16(rd) ELSE rd]
                       [] step = 2 -> [status EXCEPT !.fanSpeed = rd * 2]
                       [] OTHER    -> status
           /\ statusRaw' =
                IF ok1 /\ step = 2 THEN [statusRaw EXCEPT !.fan = rd]
                ELSE IF ~ok THEN statusRaw
                ELSE CASE step = 0 -> [statusRaw EXCEPT !.cpu = rd]
                       [] step = 1 -> [statusRaw EXCEPT !.board = rd,
                                                        !.boardCorr = is16]
                       [] OTHER    -> statusRaw
           /\ g_err_streak' = streak
           /\ g_next_allowed_ms' =
                IF ok THEN poll_now + SMBUS_MIN_TICK_MS + PollJitter(poll_now)
                ELSE poll_now + PollBackoff(streak) + PollJitter(poll_now)
           /\ poll_ret' = ok
           /\ lastBus' = IF didRead
                         THEN [who |-> "poll", locked |-> g_smbus_locked,
                               owner |-> g_smbus_mutex, idle |-> ok1]
                         ELSE lastBus
           /\ g_last_smbus_activity_ms' =
                IF readOk THEN now ELSE g_last_smbus_activity_ms
  /\ poll_path' = "ran"
  /\ smbus_release
  /\ pc' = [pc EXCEPT !["poll"] = "idle"]
  /\ UNCHANGED <<now, auxVars, g_first_ms, poll_now, cacheVars, extVars, eeVars>>

\* ======================================================= cache_manager.cpp
\* the band test without its upper limit
TempAcceptedNoUpper(celsius) == celsius > 0

\* setCpuTemp / setAmbientTemp: the value is stored only inside this band
TempAccepted(celsius) == celsius > 0 /\ celsius < 100

\* setFanSpeed: clamp to 0..100
FanClamp(percent) ==
  IF percent < 0 THEN 0 ELSE IF percent > 100 THEN 100 ELSE percent

\* updateFromSmbus(st), called by the poller's task with the struct poll() fills
CacheUpdate ==
  /\ pc["poll"] = "idle"
  /\ cache' = [fanSpeed    |-> FanClamp(status.fanSpeed),
               cpuTemp     |-> IF TempAccepted(status.cpuTemp)
                               THEN status.cpuTemp ELSE cache.cpuTemp,
               ambientTemp |-> IF TempAccepted(status.boardTemp)
                               THEN status.boardTemp ELSE cache.ambientTemp,
               currentApp  |-> cache.currentApp]
  /\ cacheRaw' = [cpu     |-> IF TempAccepted(status.cpuTemp)
                              THEN statusRaw.cpu ELSE cacheRaw.cpu,
                  amb     |-> IF TempAccepted(status.boardTemp)
                              THEN statusRaw.board ELSE cacheRaw.amb,
                  ambCorr |-> IF TempAccepted(status.boardTemp)
                              THEN statusRaw.boardCorr ELSE cacheRaw.ambCorr]
  /\ UNCHANGED <<now, auxVars, lockVars, pc, lastBus, pollVars, extVars, eeVars>>

\* the titles offered to setCurrentApp: none and one of 33 characters
AppNames == {<<>>, [i \in 1..33 |-> "A"]}

\* strncpy(dst, src, 31) and the terminating NUL
Copy31(name) == SubSeq(name, 1, IF Len(name) < 31 THEN Len(name) ELSE 31)

\* setCurrentApp(name): ignored when name is empty
SetCurrentApp ==
  /\ \E name \in AppNames :
       cache' = IF name # <<>>
                THEN [cache EXCEPT !.currentApp = Copy31(name)]
                ELSE cache
  /\ UNCHANGED <<now, auxVars, lockVars, pc, lastBus, pollVars, cacheRaw,
                 extVars, eeVars>>

\* ============================================================= udp_stat.cpp
SMBUS_QUIET_BEFORE_UDP_MS == 6
UDP_CHECK_INTERVAL_MS == 5000
UDP_JITTER_MAX_MS == 200
ID_BROADCAST_INTERVAL_MS == 1500

\* (millis() ^ 0xA5A5u) % (maxJ + 1)
jitter_ms(t, maxJ) == BitXor(t, 42405, 32) % (maxJ + 1)

\* bus_quiet_enough(): measured from the poller's last activity mark; no
\* mark yet counts as quiet
bus_quiet_enough(t) ==
  \/ g_last_smbus_activity_ms = 0
  \/ t - g_last_smbus_activity_ms >= SMBUS_QUIET_BEFORE_UDP_MS

\* status_changed(a, b)
status_changed(a, b) ==
  \/ a.fanSpeed # b.fanSpeed
  \/ a.cpuTemp # b.cpuTemp
  \/ a.ambientTemp # b.ambientTemp
  \/ a.currentApp # b.currentApp

\* the retry after a busy bus scheduled like any other check
DeferDelayFull(t) == UDP_CHECK_INTERVAL_MS + jitter_ms(t, UDP_JITTER_MAX_MS)

\* nextDataCheck = now + 150 + jitter_ms(150)
DeferDelay(t) == 150 + jitter_ms(t, 150)

\* UDPStat::loop(): the periodic data check and the ID beacon (the LED
\* blinking it also drives is left out); connected: WiFi.status() is
\* WL_CONNECTED
StatLoopWith(connected) ==
  /\ LET check   == now >= nextDataCheck
         has     == connected /\ status_changed(cache, g_last_sent)
         quiet   == bus_quiet_enough(now)
         send    == check /\ has /\ quiet
         beacon  == now >= nextIdBeacon
     IN  /\ nextDataCheck' =
              IF ~check THEN nextDataCheck
              ELSE IF has /\ ~quiet THEN now + DeferDelay(now)
              ELSE now + UDP_CHECK_INTERVAL_MS + jitter_ms(now, UDP_JITTER_MAX_MS)
         /\ g_last_sent' = IF send THEN cache ELSE g_last_sent
         /\ coreFrames' = IF send THEN coreFrames + 1 ELSE coreFrames
         /\ nextIdBeacon' =
              IF ~beacon THEN nextIdBeacon
              ELSE IF connected /\ quiet
              THEN now + ID_BROADCAST_INTERVAL_MS + jitter_ms(now, UDP_JITTER_MAX_MS)
              ELSE now + 300 + jitter_ms(now, 200)
  /\ UNCHANGED <<now, pace, waitVars, rxVars, lockVars, pc, lastBus, pollVars,
                 cacheVars, extVars, eeVars>>

StatLoop == \E connected \in BOOLEAN : StatLoopWith(connected)

\* loop() while WiFi.status() stays WL_CONNECTED
StatLoopConnected == StatLoopWith(TRUE)

\* UDPStat::begin() at millis() = 0; g_last_sent = {0}
InitStatVars ==
  /\ nextDataCheck = UDP_CHECK_INTERVAL_MS + jitter_ms(0, UDP_JITTER_MAX_MS)
  /\ nextIdBeacon = ID_BROADCAST_INTERVAL_MS + jitter_ms(0, UDP_JITTER_MAX_MS)
  /\ g_last_sent = [fanSpeed |-> 0, cpuTemp |-> 0, ambientTemp |-> 0,
                    currentApp |-> <<>>]
  /\ coreFrames = 0

\* =========================================================== udp_detect.cpp
\* the printable ASCII characters, code 32 first (three of them by name)
Alphabet ==
  <<" ", "!", "dquote", "#", "$", "%", "&", "'", "(", ")", "*", "+", ",", "-",
    ".", "/", "0", "1", "2", "3", "4", "5", "6", "7", "8", "9", ":", ";",
    "<", "=", ">", "?", "@", "A", "B", "C", "D", "E", "F", "G", "H", "I",
    "J", "K", "L", "M", "N", "O", "P", "Q", "R", "S", "T", "U", "V", "W",
    "X", "Y", "Z", "[", "bslash", "]", "^", "_", "bquote", "a", "b", "c", "d", "e",
    "f", "g", "h", "i", "j", "k", "l", "m", "n", "o", "p", "q", "r", "s",
    "t", "u", "v", "w", "x", "y", "z", "{", "|", "}", "~">>

Code(c) == 31 + (CHOOSE i \in 1..Len(Alphabet) : Alphabet[i] = c)

\* the bytes of a text
Ascii(chars) == [i \in 1..Len(chars) |-> Code(chars[i])]

\* a C string read from a buffer: the bytes before the first NUL
Cstr(b) ==
  IF \E i \in 1..Len(b) : b[i] = 0
  THEN SubSeq(b, 1, (CHOOSE i \in 1..Len(b) :
                       b[i] = 0 /\ \A j \in 1..(i - 1) : b[j] # 0) - 1)
  ELSE b

\* a copy leaving room for two terminators
safe_copy_short(dstsz, src) ==
  SubSeq(src, 1, IF Len(src) < dstsz - 2 THEN Len(src) ELSE dstsz - 2)

\* safe_copy(dst, dstsz, src): at most dstsz - 1 characters
safe_copy(dstsz, src) ==
  SubSeq(src, 1, IF Len(src) < dstsz - 1 THEN Len(src) ELSE dstsz - 1)

\* an int32_t as it lies in a little-endian buffer
Int32Bytes(v) ==
  LET u == IF v < 0 THEN (v + 2147483647) + 1 ELSE v
  IN  <<u % 256, (u \div 256) % 256, (u \div 65536) % 256,
        (u \div 16777216) + (IF v < 0 THEN 128 ELSE 0)>>

\* the int32_t at byte offset off (from 0) of buffer b
Int32At(b, off) ==
  b[off + 1] + 256 * b[off + 2] + 65536 * b[off + 3]
    + 16777216 * (IF b[off + 4] >= 128 THEN b[off + 4] - 256 ELSE b[off + 4])

\* a match by equality
approxExact(v, target, tol) == v = target

\* approx(v, target, tol)
approx(v, target, tol) == v >= target - tol /\ v <= target + tol

avIsPAL(avVal) ==
  LET v == avVal % 256 IN v = 0 \/ (v \div 2) % 8 = 7

avIsHDTV(avVal) ==
  LET v == avVal % 256 IN v = 1 \/ (v \div 2) % 8 = 5

\* formatResolution(w, h, avVal, out): the text written, as its parts
\* "<w>x<h> (<mode>)", "<w>x<h>" (mode empty) or the dash
formatResolution(w, h, avVal) ==
  LET fmt(mode) == [kind |-> "fmt", w |-> w, h |-> h, mode |-> mode]
  IN  IF approx(h, 720, 8) /\ approx(w, 1280, 32) THEN fmt("720p")
      ELSE IF approx(h, 1080, 16) /\ approx(w, 1920, 64) THEN fmt("1080i")
      ELSE IF approx(h, 480, 16)
           THEN fmt(IF avIsHDTV(avVal) THEN "480p" ELSE "480i")
      ELSE IF approx(h, 576, 16)
           THEN fmt(IF avIsHDTV(avVal) THEN "576p" ELSE "576i")
      ELSE IF w > 0 /\ h > 0 THEN fmt("")
      ELSE [kind |-> "dash"]

\* a resolution field holding a text copied as it came
ResText(t) == [kind |-> "text", text |-> t]

\* ---- C library pieces the parsers use
IsSpace(c) == c = 32 \/ (c >= 9 /\ c <= 13)
IsDigit(c) == c >= 48 /\ c <= 57

\* toupper on every character
Upper(b) == [i \in 1..Len(b) |-> IF b[i] >= 97 /\ b[i] <= 122 THEN b[i] - 32 ELSE b[i]]

RECURSIVE SkipWhile(_, _)
\* b without its leading characters in set cs
SkipWhile(b, cs) ==
  IF b # <<>> /\ b[1] \in cs THEN SkipWhile(Tail(b), cs) ELSE b

RECURSIVE DropTrailing(_, _)
DropTrailing(b, cs) ==
  IF b # <<>> /\ b[Len(b)] \in cs
  THEN DropTrailing(SubSeq(b, 1, Len(b) - 1), cs) ELSE b

\* trim_inplace: leading blanks and tabs, trailing blanks, tabs, CR, LF
trim_inplace(b) == DropTrailing(SkipWhile(b, {32, 9}), {32, 9, 13, 10})

RECURSIVE Tokens(_, _)
\* strtok_r over b with one delimiter: the non-empty runs between delimiters
Tokens(b, sep) ==
  LET t == SkipWhile(b, {sep})
  IN  IF t = <<>> THEN <<>>
      ELSE LET n == IF \E i \in 1..Len(t) : t[i] = sep
                    THEN (CHOOSE i \in 1..Len(t) :
                            t[i] = sep /\ \A j \in 1..(i - 1) : t[j] # sep) - 1
                    ELSE Len(t)
           IN  <<SubSeq(t, 1, n)>> \o Tokens(SubSeq(t, n + 2, Len(t)), sep)

\* strchr(tok, c): the position of the first c, 0 if there is none
strchr(b, c) ==
  IF \E i \in 1..Len(b) : b[i] = c
  THEN CHOOSE i \in 1..Len(b) : b[i] = c /\ \A j \in 1..(i - 1) : b[j] # c
  ELSE 0

RECURSIVE DigitsValue(_, _)
\* the leading decimal digits of b, accumulated onto acc
DigitsValue(b, acc) ==
  IF b # <<>> /\ IsDigit(b[1])
  THEN DigitsValue(Tail(b), 10 * acc + (b[1] - 48)) ELSE acc

\* "%d" / atoi: white space, an optional sign, digits.  ok: a digit was
\* found; rest: what follows the number
ScanInt(b) ==
  LET t   == SkipWhile(b, {c \in 9..32 : IsSpace(c)})
      neg == t # <<>> /\ t[1] = 45
      u   == IF t # <<>> /\ t[1] \in {43, 45} THEN Tail(t) ELSE t
      v   == DigitsValue(u, 0)
  IN  [ok   |-> u # <<>> /\ IsDigit(u[1]),
       val  |-> IF neg THEN 0 - v ELSE v,
       rest |-> SkipWhile(u, 48..57)]

atoi(b) == ScanInt(b).val

HexDigitVal(c) ==
  IF IsDigit(c) THEN c - 48
  ELSE IF c >= 65 /\ c <= 70 THEN c - 55
  ELSE IF c >= 97 /\ c <= 102 THEN c - 87
  ELSE -1

RECURSIVE HexValue(_, _)
HexValue(b, acc) ==
  IF b # <<>> /\ HexDigitVal(b[1]) >= 0
  THEN HexValue(Tail(b), 16 * acc + HexDigitVal(b[1])) ELSE acc

\* strtol(val, nullptr, 16) on a text that begins 0x or 0X
strtol16(b) == HexValue(SubSeq(b, 3, Len(b)), 0)

\* one key=value token of the legacy text applied to record st
ExpKey(st, key, val) ==
  LET rerender(t) ==
        [t EXCEPT !.resolution =
           formatResolution(t.videoWidth, t.videoHeight, t.avPackState)]
  IN  IF key = Ascii(<<"A","P","P">>)
      THEN [st EXCEPT !.currentApp = safe_copy(32, val)]
      ELSE IF key = Ascii(<<"R","E","S">>)
      THEN LET a == ScanInt(val)
               b == ScanInt(Tail(a.rest))
           IN  IF a.ok /\ a.rest # <<>> /\ a.rest[1] = 120 /\ b.ok
               THEN rerender([st EXCEPT !.videoWidth = a.val,
                                        !.videoHeight = b.val])
               ELSE [st EXCEPT !.resolution = ResText(safe_copy(32, val))]
      ELSE IF key = Ascii(<<"W","I","D","T","H">>)
      THEN rerender([st EXCEPT !.videoWidth = atoi(val)])
      ELSE IF key = Ascii(<<"H","E","I","G","H","T">>)
      THEN rerender([st EXCEPT !.videoHeight = atoi(val)])
      ELSE IF key = Ascii(<<"E","N","C","O","D","E","R">>)
      THEN [st EXCEPT !.encoderType =
              IF Len(val) >= 2 /\ val[1] = 48 /\ val[2] \in {120, 88}
              THEN strtol16(val) ELSE atoi(val)]
      ELSE IF key \in {Ascii(<<"A","V">>), Ascii(<<"A","V","P","A","C","K">>),
                       Ascii(<<"A","V","S","T","A","T","E">>)}
      THEN rerender([st EXCEPT !.avPackState = atoi(val)])
      ELSE IF key = Ascii(<<"P","I","C">>)
      THEN [st EXCEPT !.picVersion = atoi(val)]
      ELSE IF key \in {Ascii(<<"X","B","O","X","V","E","R">>),
                       Ascii(<<"X","B","O","X","V","E","R","S","I","O","N">>)}
      THEN [st EXCEPT !.xboxVersion = atoi(val)]
      ELSE IF key = Ascii(<<"T","R","A","Y">>)
      THEN [st EXCEPT !.trayState = atoi(val)]
      ELSE st

RECURSIVE ExpTokens(_, _)
\* the token loop of parseExpansionAscii
ExpTokens(st, toks) ==
  IF toks = <<>> THEN st
  ELSE LET tok == toks[1]
           eq  == strchr(tok, 61)
       IN  IF eq = 0 THEN ExpTokens(st, Tail(toks))
           ELSE ExpTokens(
                  ExpKey(st,
                         Upper(trim_inplace(SubSeq(tok, 1, eq - 1))),
                         trim_inplace(SubSeq(tok, eq + 1, Len(tok)))),
                  Tail(toks))

\* parseExpansionAscii(buf, n)
parseExpansionAscii(st, buf) == ExpTokens(st, Tokens(Cstr(buf), 59))

\* the binary test taking any length of at least 28
ExpIsBinaryAtLeast(n) == n >= 28

\* loop(): sz == 28 selects the binary record
ExpIsBinary(n) == n = 28

\* parseExpansionBinary(buf, 28)
parseExpansionBinary(st, buf) ==
  LET t == [st EXCEPT !.trayState   = Int32At(buf, 0),
                      !.avPackState = Int32At(buf, 4),
                      !.picVersion  = Int32At(buf, 8),
                      !.xboxVersion = Int32At(buf, 12),
                      !.videoWidth  = Int32At(buf, 16),
                      !.videoHeight = Int32At(buf, 20),
                      !.encoderType = Int32At(buf, 24)]
  IN  [t EXCEPT !.resolution =
         formatResolution(t.videoWidth, t.videoHeight, t.avPackState)]

\* the Expansion socket's part of loop() on datagram d (empty: none waiting)
\* a longer text is cut to the 255 bytes the buffer takes
ExpRecv(st, d) ==
  IF Len(d) = 0 THEN st
  ELSE IF ExpIsBinary(Len(d)) THEN parseExpansionBinary(st, d)
  ELSE parseExpansionAscii(st, SubSeq(d, 1, IF Len(d) > 255 THEN 255 ELSE Len(d)))

\* whether that part sets gotPacket
ExpAccepts(d) == Len(d) > 0

\* the Core size test taking any datagram that holds a whole CorePacket
CoreSizeAtLeast(n) == n >= 44

\* loop(): sz == sizeof(CorePacket)
CoreSizeOk(n) == n = 44

\* the Core socket's part of loop() on datagram d
CoreRecv(st, d) ==
  IF CoreSizeOk(Len(d))
  THEN [st EXCEPT !.fanSpeed    = Int32At(d, 0),
                  !.cpuTemp     = Int32At(d, 4),
                  !.ambientTemp = Int32At(d, 8),
                  !.currentApp  = safe_copy(32, Cstr(SubSeq(d, 13, 44)))]
  ELSE st

CoreAccepts(d) == CoreSizeOk(Len(d))

\* b64val(c): -2 for padding, -1 for a character to skip
b64val(c) ==
  IF c >= 65 /\ c <= 90 THEN c - 65
  ELSE IF c >= 97 /\ c <= 122 THEN c - 97 + 26
  ELSE IF c >= 48 /\ c <= 57 THEN c - 48 + 52
  ELSE IF c = 43 THEN 62
  ELSE IF c = 47 THEN 63
  ELSE IF c = 61 THEN -2
  ELSE -1

\* base64_decode(in, out, outCap): the bytes written.  The loop skips every
\* character b64val maps to -1, takes the others four at a time, writes up
\* to three bytes per group while o < outCap and stops after the first
\* group holding padding in its third or fourth place.
base64_decode(in, cap) ==
  LET IsB64(c) == b64val(c) # -1
      v      == SelectSeq(in, IsB64)
      groups == Len(v) \div 4
      q(g, k) == b64val(v[4 * g + k])           \* g from 0, k in 1..4
      pad(g) == (IF q(g, 3) = -2 THEN 1 ELSE 0) + (IF q(g, 4) = -2 THEN 1 ELSE 0)
      s6(x)  == IF x < 0 THEN 62 ELSE x % 64     \* x & 63; -2 & 63 = 62
      t6(x)  == IF x < 0 THEN 0 ELSE x % 64
      byte(g, k) ==
        IF k = 0 THEN s6(q(g, 1)) * 4 + (s6(q(g, 2)) \div 16)
        ELSE IF k = 1 THEN (s6(q(g, 2)) % 16) * 16 + (t6(q(g, 3)) \div 4)
        ELSE (t6(q(g, 3)) % 4) * 64 + t6(q(g, 4))
      padded == {g \in 0..(groups - 1) : pad(g) > 0}
      last   == IF padded = {} THEN groups
                ELSE CHOOSE g \in padded : \A h \in padded : g <= h
      n      == IF padded = {} THEN 3 * groups ELSE 3 * last + (3 - pad(last))
      m      == IF n < cap THEN n ELSE cap
  IN  [i \in 1..m |-> byte((i - 1) \div 3, (i - 1) % 3)]

\* the eeRaw buffer after a decode wrote out over its start
RawAfter(old, out) == out \o SubSeq(old, Len(out) + 1, Len(old))

HasPrefix(b, p) == Len(b) >= Len(p) /\ SubSeq(b, 1, Len(p)) = p

\* one key=value token of a labeled EEPROM line applied to st
EEKey(st, key, val) ==
  IF key = Ascii(<<"S","N">>)
  THEN [st EXCEPT !.eeSerial = safe_copy(13, val)]
  ELSE IF key = Ascii(<<"M","A","C">>)
  THEN [st EXCEPT !.eeMac = safe_copy(18, val)]
  ELSE IF key = Ascii(<<"R","E","G">>)
  THEN [st EXCEPT !.eeRegion = safe_copy(12, val)]
  ELSE IF key = Ascii(<<"H","D","D">>)
  THEN [st EXCEPT !.eeHddHex = safe_copy(33, val)]
  ELSE IF key = Ascii(<<"R","A","W">>)
  THEN LET out == base64_decode(val, 256)
       IN  [st EXCEPT !.eeRawLen = Len(out), !.eeRaw = RawAfter(st.eeRaw, out)]
  ELSE st

RECURSIVE EETokens(_, _)
EETokens(st, toks) ==
  IF toks = <<>> THEN st
  ELSE LET tok == toks[1]
           eq  == strchr(tok, 61)
       IN  IF eq = 0 THEN EETokens(st, Tail(toks))
           ELSE EETokens(
                  EEKey(st,
                        Upper(trim_inplace(SubSeq(tok, 1, eq - 1))),
                        trim_inplace(SubSeq(tok, eq + 1, Len(tok)))),
                  Tail(toks))

\* which of the three forms parseEE_line takes the line for
EEForm(line) ==
  IF HasPrefix(line, Ascii(<<"E","E",":","R","A","W","=">>)) THEN "RAW"
  ELSE IF HasPrefix(line, Ascii(<<"E","E",":","H","D","D","=">>)) THEN "HDD"
  ELSE IF HasPrefix(line, Ascii(<<"E","E",":","S","N","=">>)) THEN "SN"
  ELSE "none"

\* parseEE_line(line)
parseEE_line(st, line) ==
  CASE EEForm(line) = "RAW" ->
         LET out == base64_decode(SubSeq(line, 8, Len(line)), 256)
         IN  [st EXCEPT !.eeRawLen = Len(out), !.eeRaw = RawAfter(st.eeRaw, out)]
    [] EEForm(line) = "HDD" ->
         [st EXCEPT !.eeHddHex = safe_copy(33, SubSeq(line, 8, Len(line)))]
    [] EEForm(line) = "SN" ->
         EETokens(st, Tokens(SubSeq(line, 4, Len(line)), 124))
    [] OTHER -> st

\* the EEPROM socket's part of loop() on datagram d
EERecv(st, d) ==
  IF Len(d) = 0 THEN st
  ELSE parseEE_line(st, Cstr(SubSeq(d, 1, IF Len(d) > 1023 THEN 1023 ELSE Len(d))))

EEAccepts(d) ==
  /\ Len(d) > 0
  /\ EEForm(Cstr(SubSeq(d, 1, IF Len(d) > 1023 THEN 1023 ELSE Len(d)))) # "none"

NoDatagrams == [core |-> <<>>, exp |-> <<>>, ee |-> <<>>]

\* UDPDetect::hasPacket(): the one flag, whichever channel is asked about
hasPacket == gotPacket

\* UDPDetect::loop() with d.core, d.exp, d.ee waiting on the three sockets
DetectLoopOn(d) ==
  /\ lastStatus' = EERecv(ExpRecv(CoreRecv(lastStatus, d.core), d.exp), d.ee)
  /\ gotPacket' = (gotPacket \/ CoreAccepts(d.core) \/ ExpAccepts(d.exp)
                     \/ EEAccepts(d.ee))
  /\ rxIn' = d
  /\ rxTick' = 1 - rxTick
  /\ UNCHANGED <<now, pace, waitVars, statVars, lockVars, pc, lastBus, pollVars,
                 cacheVars, extVars, eeVars>>

\* ---- the datagrams offered to the receiver
\* a CorePacket as the publisher lays it out
CoreBytes(fan, cpu, amb, app) ==
  Int32Bytes(fan) \o Int32Bytes(cpu) \o Int32Bytes(amb)
    \o [i \in 1..32 |-> IF i <= Len(app) THEN app[i] ELSE 0]

\* an Expansion record in the receiver's field order
ExpBytes(tray, av, pic, ver, w, h, enc) ==
  Int32Bytes(tray) \o Int32Bytes(av) \o Int32Bytes(pic) \o Int32Bytes(ver)
    \o Int32Bytes(w) \o Int32Bytes(h) \o Int32Bytes(enc)

CoreGood == CoreBytes(50, 45, -1000, Ascii(<<"D">>))

\* on the Core port: a whole record, one cut short by a byte, one with a
\* byte too many, and a 28-byte Expansion record
CoreDatagrams ==
  {CoreGood, SubSeq(CoreGood, 1, 43), CoreGood \o <<0>>,
   ExpBytes(16, 7, 80, 4, 640, 480, ENC_FOCUS)}

ExpGood == ExpBytes(16, 7, 80, 4, 640, 480, ENC_FOCUS)

\* legacy texts: keys in lower case with blanks, an unknown key and the
\* app name; a text that happens to be 28 bytes long; one of 40 bytes
ExpTextPic ==
  Ascii(<<"p","i","c"," ","="," ","5",";","j","u","n","k","=","1",";",
          "A","P","P","=","X">>)
ExpText28 ==
  Ascii(<<"T","R","A","Y","=","1",";","A","V","=","2",";","P","I","C","=","3",
          ";","X","B","O","X","V","E","R","=","4",";">>)
ExpText40 ==
  ExpText28 \o Ascii(<<"R","E","S","=","6","4","0","x","4","8","0",";">>)

ExpDatagrams == {ExpGood, ExpTextPic, ExpText28, ExpText40}

EEDatagrams ==
  {Ascii(<<"E","E",":","H","D","D","=","A","B">>),
   Ascii(<<"E","E",":","S","N","=","1","|","M","A","C","=","2">>),
   Ascii(<<"E","E",":","R","A","W","=","Q","U","I","=">>),
   Ascii(<<"h","e","l","l","o">>)}

\* what one loop() call finds waiting: one datagram on one socket, or one
\* on each
RxInputs ==
  {[NoDatagrams EXCEPT !.core = d] : d \in CoreDatagrams}
    \cup {[NoDatagrams EXCEPT !.exp = d] : d \in ExpDatagrams}
    \cup {[NoDatagrams EXCEPT !.ee = d] : d \in EEDatagrams}
    \cup {[core |-> CoreGood, exp |-> ExpGood,
           ee |-> Ascii(<<"E","E",":","H","D","D","=","A","B">>)]}

DetectLoop == \E d \in RxInputs : DetectLoopOn(d)

\* UDPDetect::acknowledge()
Acknowledge ==
  /\ gotPacket' = FALSE
  /\ UNCHANGED <<lastStatus, rxIn, rxTick>>
  /\ UNCHANGED <<now, pace, waitVars, statVars, lockVars, pc, lastBus, pollVars,
                 cacheVars, extVars, eeVars>>

\* ---- publisher to receiver
\* the characters of a region name
RegChars(name) ==
  CASE name = "NTSC-U" -> <<"N","T","S","C","-","U">>
    [] name = "NTSC-J" -> <<"N","T","S","C","-","J">>
    [] name = "PAL" -> <<"P","A","L">>
    [] OTHER -> <<"U","N","K","N","O","W","N">>

\* the datagram eeUdp.print() builds for a frame of send_broadcasts_from_cache
FrameBytes(f) ==
  CASE f.t = "RAW" -> Ascii(<<"E","E",":","R","A","W","=">>) \o Ascii(f.raw)
    [] f.t = "HDD" -> Ascii(<<"E","E",":","H","D","D","=">>) \o Ascii(f.hdd)
    [] OTHER ->
         Ascii(<<"E","E",":","S","N","=">>) \o f.sn
           \o Ascii(<<"|","M","A","C","=">>) \o Ascii(f.mac)
           \o Ascii(<<"|","R","E","G","=">>) \o Ascii(RegChars(f.reg))
           \o Ascii(<<"|","H","D","D","=">>) \o Ascii(f.hdd)
           \o Ascii(<<"|","R","A","W","=">>) \o Ascii(f.raw)

\* udp.write(&st, sizeof(XboxStatus)) of sendUdpPacket: three ints and the
\* 32-byte name buffer
StatusBytes(st) ==
  CoreBytes(st.fanSpeed, st.cpuTemp, st.ambientTemp, Ascii(st.currentApp))

\* extUdp.write(&packet, sizeof(packet)): the seven ints of SMBusExt::Status
\* in the order tray, AV pack, PIC version, console revision, width, height,
\* encoder address
PacketBytes(p) ==
  ExpBytes(p.trayState, p.avPackState, p.picVer, p.xboxVer, p.videoWidth,
           p.videoHeight, p.encoderType)

\* the name setCurrentApp keeps of a 31-character title
Name31 == [i \in 1..31 |-> IF i % 2 = 1 THEN "H" ELSE "b"]

\* the records sendUdpPacket finds in the cache
CoreValues ==
  {[fanSpeed |-> 100, cpuTemp |-> 99, ambientTemp |-> 45, currentApp |-> Name31],
   [fanSpeed |-> 0, cpuTemp |-> -1000, ambientTemp |-> -1000,
    currentApp |-> <<>>],
   [fanSpeed |-> -1, cpuTemp |-> 45, ambientTemp |-> 99,
    currentApp |-> <<"D">>]}

\* the records sendExtStatus builds: an Xcalibur console in 720p, a Focus
\* console in 480i, a console whose revision and encoder are unknown, and
\* one reporting 1080i
ExpValues ==
  {[trayState |-> 16, avPackState |-> 1, picVer |-> 80, xboxVer |-> 6,
    encoderType |-> ENC_XCALIBUR, videoWidth |-> 1280, videoHeight |-> 720],
   [trayState |-> 96, avPackState |-> 6, picVer |-> 1, xboxVer |-> 4,
    encoderType |-> ENC_FOCUS, videoWidth |-> 640, videoHeight |-> 480],
   [trayState |-> 255, avPackState |-> 0, picVer |-> 255, xboxVer |-> -1,
    encoderType |-> -1, videoWidth |-> 720, videoHeight |-> 576],
   [trayState |-> 0, avPackState |-> 1, picVer |-> 0, xboxVer |-> 0,
    encoderType |-> ENC_CONEXANT, videoWidth |-> 1920, videoHeight |-> 1080]}

\* sendUdpPacket() and the receiver's loop() that finds its datagram
CoreTrip ==
  /\ \E st \in CoreValues :
       /\ g_last_sent' = st
       /\ lastStatus' = CoreRecv(lastStatus, StatusBytes(st))
       /\ gotPacket' = (gotPacket \/ CoreAccepts(StatusBytes(st)))
       /\ rxIn' = [NoDatagrams EXCEPT !.core = StatusBytes(st)]
  /\ rxTick' = 1 - rxTick
  /\ coreFrames' = IF coreFrames < 1 THEN coreFrames + 1 ELSE coreFrames
  /\ UNCHANGED <<now, pace, waitVars, nextDataCheck, nextIdBeacon, lockVars, pc,
                 lastBus, pollVars, cacheVars, extVars, eeVars>>

\* the broadcast at the end of sendExtStatus and the receiver's loop() that
\* finds its datagram
ExpTrip ==
  /\ \E p \in ExpValues :
       /\ extPacket' = p
       /\ lastStatus' = ExpRecv(lastStatus, PacketBytes(p))
       /\ gotPacket' = (gotPacket \/ ExpAccepts(PacketBytes(p)))
       /\ rxIn' = [NoDatagrams EXCEPT !.exp = PacketBytes(p)]
  /\ rxTick' = 1 - rxTick
  /\ UNCHANGED <<now, pace, waitVars, statVars, lockVars, pc, lastBus, pollVars,
                 cacheVars, eeVars, g_ext_first_ms, g_ext_next_allowed_ms,
                 s_encoder_known, s_encoder_cache, s_xcal_mode_known,
                 s_xcal_mode_code, s_xcal_next_probe_ms, ext_now, ext_path,
                 hw, detectProbes, detectAnswers, rsIssued, extFrames, ext_obs>>

\* the receiver's loop() that finds one datagram of the reader's latest
\* broadcast
EETrip ==
  /\ \E i \in 1..Len(lastBcast) :
       DetectLoopOn([NoDatagrams EXCEPT !.ee = FrameBytes(lastBcast[i])])

\* widths and heights on, just inside and just outside each band, and the
\* AV-pack values: HDTV (0x01 and 0x0A), composite, SCART
FmtWidths == {-1, 640, 1247, 1248, 1276, 1312, 1313, 1855, 1856, 1984, 1985}
FmtHeights ==
  {-1, 240, 463, 464, 480, 496, 497, 559, 560, 576, 592, 593, 711, 712, 722,
   728, 729, 1063, 1064, 1080, 1096, 1097}
FmtAvPacks == {1, 10, 6, 0}

\* loop() finding a binary Expansion record with the given size and AV pack
FmtLoop ==
  \E w \in FmtWidths, h \in FmtHeights, av \in FmtAvPacks :
    DetectLoopOn([NoDatagrams EXCEPT !.exp = ExpBytes(16, av, 80, 4, w, h, ENC_FOCUS)])

\* UDPDetect::begin()
InitRxVars ==
  /\ lastStatus = [fanSpeed |-> -1, cpuTemp |-> -1000, ambientTemp |-> -1000,
                   currentApp |-> <<>>,
                   trayState |-> -1, avPackState |-> -1, picVersion |-> -1,
                   xboxVersion |-> -1, encoderType |-> -1,
                   videoWidth |-> -1, videoHeight |-> -1,
                   resolution |-> ResText(<<>>),
                   eeRaw |-> <<>>, eeRawLen |-> 0, eeHddHex |-> <<>>,
                   eeSerial |-> <<>>, eeMac |-> <<>>, eeRegion |-> <<>>]
  /\ gotPacket = FALSE
  /\ rxIn = NoDatagrams
  /\ rxTick = 0

\* ============================================================ smbus_ext.cpp
isPalFromAvPack(avVal) ==
  LET v == avVal % 256
  IN  v = 0 \/ ((v \div 2) % 8) = 7

\* SD fallback from the AV pack
xcalFallbackFromAv(avVal) == <<720, IF isPalFromAvPack(avVal) THEN 576 ELSE 480>>

\* Conexant: HDTV_EN (bit 7) and RASTER_SEL (bits 1..0) of register 0x2E;
\* r2e = -1 when the read failed
getConexantResolutionFromRegs(avVal, r2e) ==
  IF r2e # -1 /\ r2e >= 128 /\ r2e % 4 = 1 THEN <<720, 480>>
  ELSE IF r2e # -1 /\ r2e >= 128 /\ r2e % 4 = 2 THEN <<1280, 720>>
  ELSE IF r2e # -1 /\ r2e >= 128 /\ r2e % 4 = 3 THEN <<1920, 1080>>
  ELSE xcalFallbackFromAv(avVal)

in(v, lo, hi) == v >= lo /\ v <= hi

bswap(x) == (x % 256) * 256 + (x \div 256)

\* the size-band cascade of the Focus active-window step: <<decided, w, h>>
FocusBand(W, H) ==
  IF in(H, 680, 760) THEN <<TRUE, 1280, 720>>
  ELSE IF in(H, 1030, 1120) THEN <<TRUE, 1920, 1080>>
  ELSE IF in(H, 460, 510)
       THEN (IF in(W, 1180, 1380) THEN <<TRUE, 1280, 720>> ELSE <<TRUE, 720, 480>>)
  ELSE IF in(W, 1180, 1380) /\ in(H, 620, 820) THEN <<TRUE, 1280, 720>>
  ELSE IF in(W, 1840, 1980) /\ in(H, 980, 1140) THEN <<TRUE, 1920, 1080>>
  ELSE IF in(W, 690, 780) /\ in(H, 430, 530) THEN <<TRUE, 720, 480>>
  ELSE <<FALSE, -1, -1>>

\* HDTV (bit 12) / INTERLACED (bit 7) of VID_CNTL0
FocusFromVc0(vc0) ==
  IF (vc0 \div 4096) % 2 = 1
  THEN (IF (vc0 \div 128) % 2 = 1 THEN <<1920, 1080>> ELSE <<1280, 720>>)
  ELSE <<720, 480>>

\* getFocusResolutionOrFallback.  rd holds the result of each word read,
\* -1 when it failed: *_stop by readWordSTOP, *_rsl by readWordRS_LSB.
getFocusResolutionOrFallback(avVal, rd) ==
  LET rsl   == IF rd.w_rsl # -1 /\ rd.h_rsl # -1
               THEN FocusBand(rd.w_rsl % 4096, rd.h_rsl % 4096)
               ELSE <<FALSE, -1, -1>>
      asis  == IF rd.w_stop # -1 /\ rd.h_stop # -1
               THEN FocusBand(rd.w_stop % 4096, rd.h_stop % 4096)
               ELSE <<FALSE, -1, -1>>
      swap  == IF rd.w_stop # -1 /\ rd.h_stop # -1
               THEN FocusBand(bswap(rd.w_stop) % 4096, bswap(rd.h_stop) % 4096)
               ELSE <<FALSE, -1, -1>>
  IN  IF rd.pid_rsl = 65029 /\ rd.vc0_rsl # -1 THEN FocusFromVc0(rd.vc0_rsl)
      ELSE IF rd.pid_stop # -1 /\ bswap(rd.pid_stop) = 65029 /\ rd.vc0_stop # -1
           THEN FocusFromVc0(bswap(rd.vc0_stop))
      ELSE IF rsl[1] THEN <<rsl[2], rsl[3]>>
      ELSE IF asis[1] THEN <<asis[2], asis[3]>>
      ELSE IF swap[1] THEN <<swap[2], swap[3]>>
      ELSE IF rd.nl_rsl # -1 /\ rd.np_rsl # -1
           THEN <<rd.np_rsl % 2048, rd.nl_rsl % 2048>>
      ELSE IF rd.nl_stop # -1 /\ rd.np_stop # -1
           THEN <<rd.np_stop % 2048, rd.nl_stop % 2048>>
      ELSE xcalFallbackFromAv(avVal)

\* what the twelve Focus word reads return on console h when the STOP-only
\* reads succeed iff stopOk and the repeated-start reads iff rsOk; a
\* repeated-start LSB-first read sees the bytes of the STOP read swapped
FocusReads(h, stopOk, rsOk) ==
  LET S(x) == IF stopOk THEN x ELSE -1
      R(x) == IF rsOk THEN bswap(x) ELSE -1
  IN  [pid_stop |-> S(h.r32), pid_rsl |-> R(h.r32),
       vc0_stop |-> S(h.r92), vc0_rsl |-> R(h.r92),
       w_stop   |-> S(h.rBA), w_rsl   |-> R(h.rBA),
       h_stop   |-> S(h.rBE), h_rsl   |-> R(h.rBE),
       nl_stop  |-> S(h.r57), nl_rsl  |-> R(h.r57),
       np_stop  |-> S(h.r71), np_rsl  |-> R(h.r71)]

\* 0:480i 1:480p 2:576i 3:576p 4:720p 5:1080i
xcalCodeToWH(code, avVal) ==
  CASE code % 8 = 0 -> <<720, 480>>
    [] code % 8 = 1 -> <<720, 480>>
    [] code % 8 = 2 -> <<720, 576>>
    [] code % 8 = 3 -> <<720, 576>>
    [] code % 8 = 4 -> <<1280, 720>>
    [] code % 8 = 5 -> <<1920, 1080>>
    [] OTHER        -> xcalFallbackFromAv(avVal)

\* 150 + ((now & 0xFF) % 250)
ExtJitter(t) == 150 + ((t % 256) % 250)

\* loop() and the head of sendExtStatus(): the pacing test and the acquire
ExtLoop ==
  /\ pc["ext"] = "idle"
  /\ IF TooEarly(now, g_ext_next_allowed_ms)
     THEN UNCHANGED <<lockVars, pc, g_ext_next_allowed_ms, ext_now, ext_path>>
     ELSE IF ~smbus_acquire_ok
     THEN /\ g_ext_next_allowed_ms' = now + SMBUS_EXT_MIN_PERIOD_MS
          /\ ext_path' = "nolock"
          /\ UNCHANGED <<lockVars, pc, ext_now>>
     ELSE /\ g_smbus_mutex' = "ext"
          /\ g_smbus_locked' = TRUE
          /\ pc' = [pc EXCEPT !["ext"] = "locked"]
          /\ ext_now' = now
          /\ UNCHANGED <<g_ext_next_allowed_ms, ext_path>>
  /\ UNCHANGED <<now, auxVars, lastBus, pollVars, cacheVars, g_ext_first_ms,
                 s_encoder_known, s_encoder_cache, s_xcal_mode_known,
                 s_xcal_mode_code, s_xcal_next_probe_ms, extPacket, hw,
                 detectProbes, detectAnswers, rsIssued, extFrames, ext_obs,
                 eeVars>>

\* detectEncoderOnce(): answers is the set of addresses that acknowledge a
\* probe; the result is the cached kind and the addresses probed, in order
detectEncoderOnce(known, cached, answers) ==
  IF known THEN [cache |-> cached, probes |-> <<>>]
  ELSE IF ENC_CONEXANT \in answers
       THEN [cache |-> ENC_CONEXANT, probes |-> <<ENC_CONEXANT>>]
  ELSE IF ENC_FOCUS \in answers
       THEN [cache |-> ENC_FOCUS, probes |-> <<ENC_CONEXANT, ENC_FOCUS>>]
  ELSE IF ENC_XCALIBUR \in answers
       THEN [cache |-> ENC_XCALIBUR,
             probes |-> <<ENC_CONEXANT, ENC_FOCUS, ENC_XCALIBUR>>]
  ELSE [cache |-> -1, probes |-> <<ENC_CONEXANT, ENC_FOCUS, ENC_XCALIBUR>>]

\* the guard of detectEncoderOnce() left out: detection on every pass
EncoderKnownNever(known) == FALSE

\* if (s_encoder_known) return; as seen by the caller
EncoderKnown(known) == known

\* the base-register test forgetting the firmware-version read
BaseReadsOkNoPic(okT, okA, okP) == okT /\ okA

\* ok after the three base reads: tray, AV pack, firmware version
BaseReadsOk(okT, okA, okP) == okT /\ okA /\ okP

\* whether the resolution step for encoder enc uses a repeated-start read:
\* readWordRS_LSB ends the register-select phase with endTransmission(false)
UsesRepeatedStart(enc) == enc = ENC_FOCUS

\* the low three bits of the mode register taken as they are
XcalModeCodeRaw(val) == val % 8

\* code = val & 0x07; s_xcal_mode_code = (code <= 5) ? code : -1
XcalModeCode(val) == IF val % 8 <= 5 THEN val % 8 ELSE -1

\* a mode probe in every pass
XcalProbeDueAlways(t, next) == TRUE

\* maybeProbeXcalMode(): if (now_ms < s_xcal_next_probe_ms) return;
XcalProbeDue(t, next) == ~(t < next)

\* a console version policy that takes nothing from the encoder
ConsoleVersionNoGuess(smcValid, b, enc) == IF smcValid THEN b ELSE -1

\* the console version policy: the SMC byte b if valid, else 6 for an
\* Xcalibur, else unknown
ConsoleVersion(smcValid, b, enc) ==
  IF smcValid THEN b ELSE IF enc = ENC_XCALIBUR THEN 6 ELSE -1

\* the nominal period after every frame
ExtPeriodNominal(smcValid) == SMBUS_EXT_MIN_PERIOD_MS

\* the period after a frame: smcValid ? SMBUS_EXT_MIN_PERIOD_MS :
\* SMBUS_EXT_BACKOFF_MS
ExtPeriod(smcValid) ==
  IF smcValid THEN SMBUS_EXT_MIN_PERIOD_MS ELSE SMBUS_EXT_BACKOFF_MS

\* the reads of the resolution step for encoder enc, probe telling whether
\* the Xcalibur mode probe is due: register 0x2E of the Conexant, the word
\* reads of the Focus, register 0x1C of the Xcalibur
ResolutionReads(enc, probe) ==
  IF enc = ENC_CONEXANT THEN <<"cx">>
  ELSE IF enc = ENC_FOCUS THEN <<"focus">>
  ELSE IF enc = ENC_XCALIBUR /\ probe THEN <<"mode">>
  ELSE <<>>

\* sendExtStatus() while the guard is held, up to unlock_smbus() and the
\* return on either exit.  okT, okA, okP, okV: the tray, AV-pack,
\* PIC-version and console-version reads succeeded; ans: the addresses that
\* answer the detection probes; okX: the Conexant / Xcalibur mode read
\* succeeded; stopOk, rsOk: the Focus word reads succeeded.
ExtBody ==
  /\ pc["ext"] = "locked"
  /\ \E okT \in BOOLEAN, okA \in BOOLEAN, okP \in BOOLEAN, okV \in BOOLEAN,
        ans \in (IF s_encoder_known THEN {hw.acks} ELSE SUBSET hw.acks),
        okX \in (IF hw.enc \in {ENC_CONEXANT, ENC_XCALIBUR} THEN BOOLEAN ELSE {TRUE}),
        stopOk \in (IF hw.enc = ENC_FOCUS THEN BOOLEAN ELSE {TRUE}),
        rsOk \in (IF hw.enc = ENC_FOCUS THEN BOOLEAN ELSE {TRUE}) :
       LET ok       == BaseReadsOk(okT, okA, okP)
           smcValid == okV /\ hw.ver <= 6
           det      == detectEncoderOnce(EncoderKnown(s_encoder_known),
                                         s_encoder_cache, ans)
           enc      == det.cache
           xboxVer  == ConsoleVersion(smcValid, hw.ver, enc)
           probe    == enc = ENC_XCALIBUR
                       /\ XcalProbeDue(ext_now, s_xcal_next_probe_ms)
           code     == IF probe /\ okX
                       THEN XcalModeCode(hw.xmode)
                       ELSE s_xcal_mode_code
           known    == s_xcal_mode_known \/ (probe /\ okX)
           res      == IF enc = ENC_CONEXANT
                       THEN getConexantResolutionFromRegs(hw.av,
                              IF okX THEN hw.r2e ELSE -1)
                       ELSE IF enc = ENC_FOCUS
                       THEN getFocusResolutionOrFallback(hw.av,
                              FocusReads(hw, stopOk, rsOk))
                       ELSE IF enc = ENC_XCALIBUR
                       THEN (IF known /\ code >= 0
                             THEN xcalCodeToWH(code, hw.av)
                             ELSE xcalFallbackFromAv(hw.av))
                       ELSE xcalFallbackFromAv(hw.av)
           moded    == ok /\ probe
       IN  /\ ext_obs' =
                IF ~hw.track THEN ext_obs
                ELSE [ext_obs EXCEPT
                        !.reads = <<"tray", "av", "pic">> \o
                           (IF ~ok THEN <<>>
                            ELSE <<"ver">> \o
                                 [i \in 1..Len(det.probes) |-> "detect"] \o
                                 ResolutionReads(enc, probe)),
                        !.failed = {r \in {"tray", "av", "pic"} :
                                      \/ r = "tray" /\ ~okT
                                      \/ r = "av" /\ ~okA
                                      \/ r = "pic" /\ ~okP},
                        !.ver = IF ~ok THEN -2 ELSE IF okV THEN hw.ver ELSE -1,
                        !.modeGap = IF moded /\ @ = -1 /\ ext_obs.modeAt # -1
                                    THEN ext_now - ext_obs.modeAt
                                    ELSE IF moded /\ ext_obs.modeAt # -1
                                              /\ ext_now - ext_obs.modeAt < @
                                    THEN ext_now - ext_obs.modeAt
                                    ELSE @,
                        !.modeAt = IF moded THEN ext_now ELSE @,
                        !.probe = IF ~moded THEN "none"
                                  ELSE IF okX THEN "ok" ELSE "fail",
                        !.everOk = @ \/ (moded /\ okX)]
           /\ IF ~ok
              THEN /\ g_ext_next_allowed_ms' =
                        ext_now + SMBUS_EXT_BACKOFF_MS + ExtJitter(ext_now)
                   /\ ext_path' = "fail"
                   /\ UNCHANGED <<s_encoder_known, s_encoder_cache,
                                  s_xcal_mode_known, s_xcal_mode_code,
                                  s_xcal_next_probe_ms, extPacket,
                                  detectProbes, detectAnswers, rsIssued,
                                  extFrames>>
              ELSE /\ s_encoder_known' = TRUE
                   /\ s_encoder_cache' = enc
                   /\ detectProbes' = detectProbes \o det.probes
                   /\ detectAnswers' = IF s_encoder_known THEN detectAnswers ELSE ans
                   /\ rsIssued' = (rsIssued \/ UsesRepeatedStart(enc))
                   /\ s_xcal_next_probe_ms' =
                        IF probe THEN ext_now + XCAL_MODE_PROBE_PERIOD_MS
                        ELSE s_xcal_next_probe_ms
                   /\ s_xcal_mode_code' = code
                   /\ s_xcal_mode_known' = known
                   /\ extPacket' = [trayState   |-> IF okT THEN hw.tray ELSE -1,
                                    avPackState |-> IF okA THEN hw.av ELSE -1,
                                    picVer      |-> IF okP THEN hw.pic ELSE -1,
                                    xboxVer |-> xboxVer,
                                    encoderType |-> enc,
                                    videoWidth |-> res[1], videoHeight |-> res[2]]
                   /\ g_ext_next_allowed_ms' =
                        ext_now + ExtPeriod(smcValid) + ExtJitter(ext_now)
                   /\ ext_path' = "sent"
                   /\ extFrames' = extFrames + 1
  /\ lastBus' = [who |-> "ext", locked |-> g_smbus_locked, owner |-> g_smbus_mutex,
                 idle |-> FALSE]
  /\ smbus_release
  /\ pc' = [pc EXCEPT !["ext"] = "idle"]
  /\ UNCHANGED <<now, auxVars, pollVars, cacheVars, g_ext_first_ms, ext_now, hw, eeVars>>

\* ------------------------------------------------------------------ time
\* millis() moves on by one of the given steps
AdvanceBy(steps) ==
  /\ \E d \in steps :
       /\ now + d <= MaxNow
       /\ now' = now + d
  /\ UNCHANGED <<auxVars, lockVars, pc, lastBus, pollVars, cacheVars, extVars,
                 eeVars>>

\* time as seen where the three bus users interleave: before and after the
\* startup graces
AdvanceCoarse == AdvanceBy({20000})

\* time as seen by the reader and the poller: the rebroadcast period
Advance == AdvanceBy({10000})

\* time as seen by the poller alone
AdvanceFine == AdvanceBy({5000})


\* ================================================================ consoles
\* enc: the encoder that answers on the bus (-1: none); ver: SMC console
\* version byte (255: not reported); r2e: Conexant 0x2E; xmode: Xcalibur
\* 0x1C; r32..r71: Focus registers as readWordSTOP returns them; vals: the
\* bytes the three sensor registers may return; settled: the time from
\* which a tick following a good tick finds the lines idle and reads a byte
\* of calm; track: the poller's ticks are recorded in poll_obs
Console(enc, ver, av, vals) ==
  [enc |-> enc, acks |-> {enc} \ {-1}, ver |-> ver, tray |-> 16, av |-> av,
   pic |-> 80, settled |-> 1000000000, calm |-> vals, track |-> FALSE,
   r2e |-> 130, xmode |-> 4,
   r32 |-> 1534, r92 |-> 4224, rBA |-> 1280, rBE |-> 720, r57 |-> 525,
   r71 |-> 858, vals |-> vals]

HwBus == {Console(ENC_XCALIBUR, 255, 6, {40})}

HwPoll ==
  {Console(ENC_XCALIBUR, 255, 6, {0, 50, 99, 110, 120}),
   Console(ENC_FOCUS, 4, 7, {0, 50, 99, 110, 120})}

HwEE == {Console(ENC_CONEXANT, 3, 0, {40})}

\* the time from which the consoles of HwTick have settled
TickSettled == 12500

\* a 1.6 console and an earlier one whose bus is unruly at first, and again
\* for as long as ticks go on failing; 60 is a temperature in range and a
\* fan byte out of range, 120 is out of range for all three
HwTick ==
  {[Console(enc, 255, 6, {40, 60, 120}) EXCEPT
      !.settled = TickSettled, !.calm = {40}, !.track = TRUE] :
   enc \in {ENC_XCALIBUR, ENC_CONEXANT}}

\* the consoles met by the sampler: each encoder family, no encoder, and a
\* board on which a second device answers at the Xcalibur address
HwExt ==
  {Console(ENC_CONEXANT, 3, 0, {40}),
   Console(ENC_FOCUS, 4, 7, {40}),
   Console(ENC_XCALIBUR, 255, 6, {40}),
   Console(-1, 255, 6, {40}),
   [Console(ENC_FOCUS, 4, 6, {40}) EXCEPT !.acks = {ENC_FOCUS, ENC_XCALIBUR}]}

\* ==================================================================== Init
\* ------------------------------------------------- the bounded waits
\* the ms_timeout arguments tried: none, a short one, the default
LockTimeouts == {0, 6, 500}

\* delay(2) never advancing millis()
LockDelaysNone == {0}

\* microseconds that delay(2) takes: 2 ms, or 3 ms when the task is
\* rescheduled late
LockDelays == {2000, 3000}

\* the max_wait_ms arguments tried: none and SMBUS_WAIT_FREE_MS
WaitTimeouts == {0, 15}

\* microseconds one sampling pass of wait_bus_free takes:
\* delayMicroseconds(150) and the two digitalRead calls
WaitDelays == {150, 200}

\* SMBUS_FREE_STABLE_CHECKS
SMBUS_FREE_STABLE_CHECKS == 3

\* millis() - t0, from the microseconds elapsed
ElapsedMs(us) == us \div 1000

WaitIdle ==
  /\ w_fn = "none" /\ w_timeout = 0 /\ w_elapsed = 0
  /\ w_tried = FALSE /\ w_stable = 0 /\ w_ret = "none"

\* the locals of a wait that has returned are gone
WaitReset ==
  /\ w_fn' = "none" /\ w_timeout' = 0 /\ w_elapsed' = 0
  /\ w_tried' = FALSE /\ w_stable' = 0 /\ w_ret' = "none"

\* lock_with_timeout(ms_timeout): t0 = millis()
LockStart ==
  /\ w_fn = "none"
  /\ \E t \in LockTimeouts : w_timeout' = t
  /\ w_fn' = "lock"
  /\ w_ret' = "running"
  /\ w_elapsed' = 0 /\ w_tried' = FALSE /\ w_stable' = 0
  /\ UNCHANGED <<now, lockVars, pc, lastBus, pollVars, cacheVars, extVars,
                 eeVars, try_ret, statVars, rxVars, pace>>

\* one pass of its do-while: the try, then delay(2) and the loop test
LockIter ==
  /\ w_fn = "lock" /\ w_ret = "running"
  /\ w_tried' = TRUE
  /\ IF ee_try_lock_smbus
     THEN /\ g_smbus_locked' = TRUE
          /\ w_ret' = "true"
          /\ UNCHANGED w_elapsed
     ELSE /\ \E d \in LockDelays : w_elapsed' = w_elapsed + d
          /\ w_ret' = IF ElapsedMs(w_elapsed') < w_timeout
                      THEN "running" ELSE "false"
          /\ UNCHANGED g_smbus_locked
  /\ UNCHANGED <<now, g_smbus_mutex, pc, lastBus, pollVars, cacheVars,
                 extVars, eeVars, w_fn, w_timeout, w_stable, try_ret, statVars, rxVars, pace>>

\* the caller after lock_with_timeout returned: readBlock fails with -1, or
\* does its transfer and calls unlock_smbus()
LockReturn ==
  /\ w_fn = "lock" /\ w_ret \in {"true", "false"}
  /\ IF w_ret = "true" THEN ee_unlock_smbus ELSE UNCHANGED g_smbus_locked
  /\ WaitReset
  /\ UNCHANGED <<now, g_smbus_mutex, pc, lastBus, pollVars, cacheVars,
                 extVars, eeVars, try_ret, statVars, rxVars, pace>>

\* wait_bus_free(max_wait_ms): start = millis(), stable = 0
WaitStart ==
  /\ w_fn = "none"
  /\ \E t \in WaitTimeouts : w_timeout' = t
  /\ w_fn' = "wait"
  /\ w_ret' = "running"
  /\ w_elapsed' = 0 /\ w_tried' = FALSE /\ w_stable' = 0
  /\ UNCHANGED <<now, lockVars, pc, lastBus, pollVars, cacheVars, extVars,
                 eeVars, try_ret, statVars, rxVars, pace>>

\* one sampling pass of wait_bus_free; high: both lines were sampled high,
\* d: the microseconds the pass took
WaitSample(high, d) ==
  IF high /\ w_stable + 1 >= SMBUS_FREE_STABLE_CHECKS
  THEN /\ w_stable' = w_stable + 1
       /\ w_ret' = "true"
       /\ UNCHANGED w_elapsed
  ELSE /\ w_stable' = IF high THEN w_stable + 1 ELSE 0
       /\ w_elapsed' = w_elapsed + d
       /\ UNCHANGED w_ret

\* one test of its while condition and, if it holds, one sampling pass
WaitIter ==
  /\ w_fn = "wait" /\ w_ret = "running"
  /\ IF ~(ElapsedMs(w_elapsed) < w_timeout)
     THEN /\ w_ret' = "false"
          /\ UNCHANGED <<w_elapsed, w_stable>>
     ELSE \E high \in BOOLEAN, d \in WaitDelays : WaitSample(high, d)
  /\ UNCHANGED <<now, lockVars, pc, lastBus, pollVars, cacheVars, extVars,
                 eeVars, w_fn, w_timeout, w_tried, try_ret, statVars, rxVars, pace>>

\* the caller after wait_bus_free returned
WaitReturn ==
  /\ w_fn = "wait" /\ w_ret \in {"true", "false"}
  /\ WaitReset
  /\ UNCHANGED <<now, lockVars, pc, lastBus, pollVars, cacheVars, extVars,
                 eeVars, try_ret, statVars, rxVars, pace>>

\* SMBUS_WAIT_FREE_MS, the default max_wait_ms of wait_bus_free
SMBUS_WAIT_FREE_MS == 15

\* the waits of poll()'s idle check: its own first wait, the wait inside
\* maybe_recover_wire(), and its second wait after the recovery
CheckWaits == {"first", "recover", "second"}

\* the poller's variables the idle check leaves alone
pollRest ==
  <<g_first_ms, g_next_allowed_ms, g_err_streak, g_rr_step, g_is16_known,
    g_is16_cached, g_last_smbus_activity_ms, status, statusRaw, poll_now,
    poll_ret, poll_path>>

\* wait_bus_free() called as the wait named fn of the idle check
CheckWait(fn) ==
  /\ w_fn' = fn
  /\ w_timeout' = SMBUS_WAIT_FREE_MS
  /\ w_ret' = "running"
  /\ w_elapsed' = 0 /\ w_tried' = FALSE /\ w_stable' = 0

\* poll() reaches its idle check: ok = wait_bus_free()
CheckStart ==
  /\ w_fn = "none"
  /\ CheckWait("first")
  /\ poll_obs' = [poll_obs EXCEPT !.last3 = <<>>]
  /\ UNCHANGED <<now, lockVars, pc, lastBus, pollRest, stuck_streak,
                 cacheVars, extVars, eeVars, try_ret, statVars, rxVars, pace>>

\* one test of the while condition of a wait of the idle check and, if it
\* holds, one sampling pass, whose sample joins poll_obs.last3
CheckIter ==
  /\ w_fn \in CheckWaits /\ w_ret = "running"
  /\ IF ~(ElapsedMs(w_elapsed) < w_timeout)
     THEN /\ w_ret' = "false"
          /\ UNCHANGED <<w_elapsed, w_stable, poll_obs>>
     ELSE \E high \in BOOLEAN, d \in WaitDelays :
            /\ WaitSample(high, d)
            /\ poll_obs' =
                 [poll_obs EXCEPT
                    !.last3 = IF Len(@) < 3 THEN Append(@, high)
                              ELSE Append(Tail(@), high)]
  /\ UNCHANGED <<now, lockVars, pc, lastBus, pollRest, stuck_streak,
                 cacheVars, extVars, eeVars, w_fn, w_timeout, w_tried,
                 try_ret, statVars, rxVars, pace>>

\* the idle check after one of its waits returned: poll() goes on to
\* maybe_recover_wire() when its first wait failed; maybe_recover_wire()
\* counts its own wait and may re-initialise Wire, and poll() waits a
\* second time; after the first wait succeeded or the second returned the
\* check is over
CheckNext ==
  /\ w_fn \in CheckWaits /\ w_ret \in {"true", "false"}
  /\ LET free == w_ret = "true"
         run == IF free THEN 0
                ELSE IF poll_obs.wedged < 3 THEN poll_obs.wedged + 1 ELSE 3
         rec == maybe_recover_wire(stuck_streak, free)
     IN  /\ IF w_fn = "recover"
            THEN /\ stuck_streak' = rec.streak
                 /\ poll_obs' =
                      [poll_obs EXCEPT
                         !.wedged = run, !.last3 = <<>>,
                         !.reinitRun = IF rec.reinit THEN run ELSE @]
                 /\ CheckWait("second")
            ELSE /\ UNCHANGED stuck_streak
                 /\ poll_obs' = [poll_obs EXCEPT !.wedged = run,
                                                  !.last3 = <<>>]
                 /\ IF w_fn = "first" /\ ~free
                    THEN CheckWait("recover")
                    ELSE WaitReset
  /\ UNCHANGED <<now, lockVars, pc, lastBus, pollRest, cacheVars, extVars,
                 eeVars, try_ret, statVars, rxVars, pace>>

\* smbus_acquire(0) by the poller or the sampler: xSemaphoreTake with a zero
\* tick count, one step whatever the outcome
GuardTry ==
  /\ \E t \in {"poll", "ext"} :
       IF smbus_acquire_ok
       THEN /\ g_smbus_mutex' = t
            /\ g_smbus_locked' = TRUE
            /\ try_ret' = [by |-> t, ok |-> TRUE]
       ELSE /\ try_ret' = [by |-> t, ok |-> FALSE]
            /\ UNCHANGED lockVars
  /\ UNCHANGED <<now, pc, lastBus, pollVars, cacheVars, extVars, eeVars,
                 w_fn, w_timeout, w_elapsed, w_tried, w_stable, w_ret, statVars, rxVars, pace>>

\* smbus_release() by the task that took the mutex
GuardGive ==
  /\ g_smbus_mutex \in {"poll", "ext"}
  /\ smbus_release
  /\ UNCHANGED <<now, pc, lastBus, pollVars, cacheVars, extVars, eeVars,
                 waitVars, statVars, rxVars, pace>>

InitWaitVars ==
  /\ WaitIdle
  /\ try_ret = [by |-> "none", ok |-> FALSE]

\* the state after setup(): XboxSMBusPoll::begin(), Cache_Manager::begin()
\* and SMBusExt::begin() have run at millis() = 0
\* ------------------------------------------- pacing on the 32-bit counter
\* a uint32_t as two 16-bit halves <<high, low>>
U32(hi, lo) == <<hi, lo>>

\* a + d in uint32_t arithmetic, d < 2^31
Add32(a, d) ==
  LET l == a[2] + (d % 65536)
  IN  U32((a[1] + (d \div 65536) + (l \div 65536)) % 65536, l % 65536)

\* a - b in uint32_t arithmetic
Sub32(a, b) ==
  LET l == a[2] - b[2]
      borrow == IF l < 0 THEN 1 ELSE 0
  IN  U32((a[1] - b[1] - borrow + 65536) % 65536, (l + 65536) % 65536)

\* a < b on uint32_t
Lt32(a, b) == a[1] < b[1] \/ (a[1] = b[1] /\ a[2] < b[2])

\* now < g_next_allowed_ms, millis() < g_ext_next_allowed_ms and
\* !(now >= nextDataCheck) on uint32_t operands
TooEarly32(t, next) == Lt32(t, next)

\* (millis() ^ 0xA5A5u) % (maxJ + 1) on a uint32_t
jitter32(t, maxJ) ==
  ((t[1] % (maxJ + 1)) * (65536 % (maxJ + 1)) + BitXor(t[2], 42405, 16))
    % (maxJ + 1)

\* the span of time followed around the wrap of millis()
MaxPaceSpan == 10000

\* the three tasks having run at millis() = 2^32 - 7000
PaceStart ==
  LET t == U32(65535, 58536)
  IN  [now |-> t,
       g_next_allowed_ms |-> Add32(t, SMBUS_MIN_TICK_MS + PollJitter(t[2])),
       g_err_streak |-> 0,
       g_ext_next_allowed_ms |->
         Add32(t, SMBUS_EXT_MIN_PERIOD_MS + ExtJitter(t[2])),
       nextDataCheck |->
         Add32(t, UDP_CHECK_INTERVAL_MS + jitter32(t, UDP_JITTER_MAX_MS))]

paceRest == <<now, lockVars, pc, lastBus, pollVars, cacheVars, extVars, eeVars,
              waitVars, statVars, rxVars>>

\* poll(): the pacing test and the three ways the tick schedules the next
\* one (guard refused, reads failed, reads succeeded)
PacePoll ==
  /\ ~TooEarly32(pace.now, pace.g_next_allowed_ms)
  /\ \E out \in {"nolock", "fail", "ok"} :
       LET t == pace.now
           streak == IF out = "nolock" THEN pace.g_err_streak
                     ELSE IF out = "ok" THEN 0
                     ELSE IF pace.g_err_streak < 5 THEN pace.g_err_streak + 1
                     ELSE pace.g_err_streak
           delay == IF out = "nolock" THEN SMBUS_MIN_TICK_MS
                    ELSE IF out = "ok" THEN SMBUS_MIN_TICK_MS + PollJitter(t[2])
                    ELSE PollBackoff(streak) + PollJitter(t[2])
       IN  pace' = [pace EXCEPT !.g_err_streak = streak,
                                !.g_next_allowed_ms = Add32(t, delay)]
  /\ UNCHANGED paceRest

\* SMBusExt::loop() and sendExtStatus(): the pacing test and the ways the
\* pass schedules the next one (guard refused, base group failed, frame
\* sent with or without the revision byte)
PaceExt ==
  /\ ~TooEarly32(pace.now, pace.g_ext_next_allowed_ms)
  /\ \E out \in {"nolock", "basefail", "valid", "invalid"} :
       LET t == pace.now
           delay == IF out = "nolock" THEN SMBUS_EXT_MIN_PERIOD_MS
                    ELSE IF out = "basefail"
                    THEN SMBUS_EXT_BACKOFF_MS + ExtJitter(t[2])
                    ELSE ExtPeriod(out = "valid") + ExtJitter(t[2])
       IN  pace' = [pace EXCEPT !.g_ext_next_allowed_ms = Add32(t, delay)]
  /\ UNCHANGED paceRest

\* UDPStat::loop(): the data check and its two ways of scheduling the next
PaceStat ==
  /\ ~TooEarly32(pace.now, pace.nextDataCheck)
  /\ \E defer \in BOOLEAN :
       LET t == pace.now
           delay == IF defer THEN 150 + jitter32(t, 150)
                    ELSE UDP_CHECK_INTERVAL_MS + jitter32(t, UDP_JITTER_MAX_MS)
       IN  pace' = [pace EXCEPT !.nextDataCheck = Add32(t, delay)]
  /\ UNCHANGED paceRest

\* millis() moves on, past 2^32 - 1 to 0
PaceAdvance ==
  /\ \E d \in {1000} :
       /\ Sub32(pace.now, PaceStart.now)[2] + d <= MaxPaceSpan
       /\ pace' = [pace EXCEPT !.now = Add32(pace.now, d)]
  /\ UNCHANGED paceRest

InitShared ==
  /\ now = 0
  /\ g_smbus_mutex = "none"
  /\ g_smbus_locked = FALSE
  /\ pc = [t \in Tasks |-> "idle"]
  /\ lastBus = [who |-> "none", locked |-> FALSE, owner |-> "none",
                idle |-> FALSE]
  /\ InitWaitVars
  /\ InitStatVars
  /\ InitRxVars
  /\ pace = PaceStart

InitPollVars ==
  /\ g_first_ms = 0
  /\ g_next_allowed_ms = SMBUS_STARTUP_GRACE_MS
  /\ g_err_streak = 0
  /\ g_rr_step = 0
  /\ g_is16_known = FALSE
  /\ g_is16_cached = FALSE
  /\ stuck_streak = 0
  /\ g_last_smbus_activity_ms = 0
  /\ status = [cpuTemp |-> -1, boardTemp |-> -1, fanSpeed |-> -1]
  /\ statusRaw = [cpu |-> -1, board |-> -1, boardCorr |-> FALSE, fan |-> -1]
  /\ poll_now = 0
  /\ poll_ret = TRUE
  /\ poll_path = "none"
  /\ poll_obs = [rd |-> -2, fails |-> 0, idle |-> FALSE, step |-> -1,
                 regs |-> {}, probes |-> 0, last3 |-> <<>>, wedged |-> 0,
                 reinitRun |-> -1]
  /\ cache = [fanSpeed |-> -1, cpuTemp |-> -1000, ambientTemp |-> -1000,
              currentApp |-> <<>>]
  /\ cacheRaw = [cpu |-> -1, amb |-> -1, ambCorr |-> FALSE]

InitExtVars ==
  /\ g_ext_first_ms = 0
  /\ g_ext_next_allowed_ms = SMBUS_EXT_STARTUP_GRACE_MS
  /\ s_encoder_known = FALSE
  /\ s_encoder_cache = -1
  /\ s_xcal_mode_known = FALSE
  /\ s_xcal_mode_code = -1
  /\ s_xcal_next_probe_ms = SMBUS_EXT_STARTUP_GRACE_MS + 500
  /\ ext_now = 0
  /\ ext_path = "none"
  /\ extPacket = [trayState |-> -1, avPackState |-> -1, picVer |-> -1,
                  xboxVer |-> -1, encoderType |-> -1,
                  videoWidth |-> -1, videoHeight |-> -1]
  /\ detectProbes = <<>>
  /\ detectAnswers = {}
  /\ rsIssued = FALSE
  /\ extFrames = 0
  /\ ext_obs = [reads |-> <<>>, failed |-> {}, ver |-> -2, modeAt |-> -1,
                modeGap |-> -1, probe |-> "none", everOk |-> FALSE]

InitEEVars ==
  /\ s_read_done = FALSE
  /\ s_have_rom = FALSE
  /\ s_have_hdd = FALSE
  /\ s_hdd_hex = <<>>
  /\ s_raw_b64 = <<>>
  /\ s_last_bcast = 0
  /\ ee_tries = 0
  /\ ee_off = 0
  /\ ee_rc = 0
  /\ readAllCalls = 0
  /\ errFrames = 0
  /\ eeSent = {}
  /\ lastBcast = <<>>
  /\ tried = <<>>
  /\ keyRuns = 0
  /\ firstOutcome = <<FALSE, <<>>>>
  /\ readAt = -1

\* the three bus users running concurrently
Init ==
  /\ InitShared /\ InitPollVars /\ InitExtVars /\ InitEEVars
  /\ hw \in HwBus
  /\ eeprom \in BusImages
  /\ s_rom = [i \in 1..256 |-> 0]

Next ==
  \/ PollEnter \/ PollBody
  \/ ExtLoop \/ ExtBody
  \/ EEBroadcastOnce \/ EELockTry \/ EEReadBlock \/ EEFinish
  \/ AdvanceCoarse

Spec == Init /\ [][Next]_vars

\* the poller and the sampler around their startup graces, the clock moving
\* in steps of 5 s
NextGrace == PollEnter \/ PollBody \/ ExtLoop \/ ExtBody \/ AdvanceFine

SpecGrace == Init /\ [][NextGrace]_vars

\* the configuration-memory reader with the poller as the other bus user
InitEE ==
  /\ InitShared /\ InitPollVars /\ InitExtVars /\ InitEEVars
  /\ hw \in HwEE
  /\ eeprom \in EEImages
  /\ s_rom = [i \in 1..256 |-> 0]

NextEE ==
  \/ PollEnter \/ PollBody
  \/ EEBroadcastOnce \/ EELockTry \/ EEReadBlock \/ EEFinish \/ EETick
  \/ Advance

SpecEE == InitEE /\ [][NextEE]_vars

\* the configuration-memory reader alone, its clock in half periods
NextRebroadcast ==
  \/ EEBroadcastOnce \/ EELockTry \/ EEReadBlock \/ EEFinish \/ EETick
  \/ AdvanceFine

SpecRebroadcast == InitEE /\ [][NextRebroadcast]_vars

\* key recovery as a function of the image: s_rom holds a read image
InitKey ==
  /\ InitShared /\ InitPollVars /\ InitExtVars /\ InitEEVars
  /\ hw \in {Console(-1, 255, 0, {40})}
  /\ eeprom \in KeyImages
  /\ s_rom = eeprom

NextKey == KeyRun

SpecKey == InitKey /\ [][NextKey]_vars

\* the poller with its cache alone
InitPoll ==
  /\ InitShared /\ InitPollVars /\ InitExtVars /\ InitEEVars
  /\ hw \in HwPoll
  /\ eeprom \in BlankImages
  /\ s_rom = [i \in 1..256 |-> 0]

NextPoll == PollEnter \/ PollBody \/ CacheUpdate \/ AdvanceFine

SpecPoll == InitPoll /\ [][NextPoll]_vars

\* millis() is followed up to this value where ticks are followed one by one
MaxTickNow == 260000

\* the loop calls poll() again when the next tick is due
AdvanceToNext ==
  /\ pc["poll"] = "idle"
  /\ now < g_next_allowed_ms
  /\ g_next_allowed_ms <= MaxTickNow
  /\ now' = g_next_allowed_ms
  /\ UNCHANGED <<auxVars, lockVars, pc, lastBus, pollVars, cacheVars,
                 extVars, eeVars>>

\* the poller alone, tick after tick
InitTick ==
  /\ InitShared /\ InitPollVars /\ InitExtVars /\ InitEEVars
  /\ hw \in HwTick
  /\ eeprom \in BlankImages
  /\ s_rom = [i \in 1..256 |-> 0]

NextTick == PollEnter \/ PollBody \/ AdvanceToNext

SpecTick == InitTick /\ [][NextTick]_vars

\* the sampler alone on each kind of console
InitExt ==
  /\ InitShared /\ InitPollVars /\ InitExtVars /\ InitEEVars
  /\ hw \in HwExt
  /\ eeprom \in {[i \in 1..256 |-> 255]}
  /\ s_rom = [i \in 1..256 |-> 0]

NextExt == ExtLoop \/ ExtBody \/ AdvanceFine

SpecExt == InitExt /\ [][NextExt]_vars

\* millis() is followed up to this value where passes are followed one by
\* one
MaxPassNow == 45000

\* the consoles of HwExt, a 1.6 console that reports its revision, 1.6
\* consoles whose mode register reads 480p and a value outside the table,
\* and a Focus console in an SD mode whose chip-ID word is not 0xFE05 and
\* whose active-area registers are not programmed
HwPass ==
  {[h EXCEPT !.track = TRUE] :
     h \in HwExt \cup
           {Console(ENC_XCALIBUR, 6, 6, {40}),
            [Console(ENC_FOCUS, 4, 7, {40}) EXCEPT
               !.r32 = 0, !.rBA = 0, !.rBE = 0],
            [Console(ENC_XCALIBUR, 255, 0, {40}) EXCEPT !.xmode = 1],
            [Console(ENC_XCALIBUR, 6, 6, {40}) EXCEPT !.xmode = 14]}}

\* the main loop calls loop() again when the next pass is due
AdvanceToPass ==
  /\ pc["ext"] = "idle"
  /\ now < g_ext_next_allowed_ms
  /\ g_ext_next_allowed_ms <= MaxPassNow
  /\ now' = g_ext_next_allowed_ms
  /\ UNCHANGED <<auxVars, lockVars, pc, lastBus, pollVars, cacheVars,
                 extVars, eeVars>>

\* the sampler alone, pass after pass
InitPass ==
  /\ InitShared /\ InitPollVars /\ InitExtVars /\ InitEEVars
  /\ hw \in HwPass
  /\ eeprom \in {[i \in 1..256 |-> 255]}
  /\ s_rom = [i \in 1..256 |-> 0]

NextPass == ExtLoop \/ ExtBody \/ AdvanceToPass

SpecPass == InitPass /\ [][NextPass]_vars

\* the publisher beside the poller and the sampler
HwStat == {Console(-1, 255, 6, {40})}

InitStat ==
  /\ InitShared /\ InitPollVars /\ InitExtVars /\ InitEEVars
  /\ hw \in HwStat
  /\ eeprom \in {[i \in 1..256 |-> 255]}
  /\ s_rom = [i \in 1..256 |-> 0]

NextStat ==
  \/ StatLoop \/ SetCurrentApp \/ CacheUpdate
  \/ PollEnter \/ PollBody
  \/ ExtLoop \/ ExtBody
  \/ Advance

SpecStat == InitStat /\ [][NextStat]_vars

\* the latest time of a data check
MaxCheckNow == 16000

\* the main loop calls loop() again when the next data check is due
AdvanceToCheck ==
  /\ now < nextDataCheck
  /\ nextDataCheck <= MaxCheckNow
  /\ now' = nextDataCheck
  /\ UNCHANGED <<auxVars, lockVars, pc, lastBus, pollVars, cacheVars,
                 extVars, eeVars>>

\* the publisher on a connected network beside the poller, check after
\* check: loop() is called in every pass of the main loop and time goes on
NextPublish ==
  \/ StatLoopConnected \/ SetCurrentApp \/ CacheUpdate
  \/ PollEnter \/ PollBody
  \/ AdvanceToCheck

SpecPublish ==
  /\ InitStat /\ [][NextPublish]_vars
  /\ WF_vars(StatLoopConnected) /\ WF_vars(AdvanceToCheck)

\* the pacing of the three tasks around the wrap of millis()
NextPace == PacePoll \/ PaceExt \/ PaceStat \/ PaceAdvance

SpecPace == InitStat /\ [][NextPace]_vars

\* the receiver alone
InitDetect ==
  /\ InitShared /\ InitPollVars /\ InitExtVars /\ InitEEVars
  /\ hw \in HwEE
  /\ eeprom \in {[i \in 1..256 |-> 255]}
  /\ s_rom = [i \in 1..256 |-> 0]

NextDetect == DetectLoop \/ Acknowledge

SpecDetect == InitDetect /\ [][NextDetect]_vars

\* the images whose frames travel to the receiver: keys recovered under the
\* second and the first candidate
TripImages ==
  {MakeImage([k |-> 2, L |-> 24, n |-> 1, pad |-> 0]),
   MakeImage([k |-> 1, L |-> 28, n |-> 2, pad |-> 9])}

\* the publishers' frames as the receiver decodes them
InitTrip ==
  /\ InitShared /\ InitPollVars /\ InitExtVars /\ InitEEVars
  /\ hw \in HwEE
  /\ eeprom \in TripImages \cup {[i \in 1..256 |-> 255]}
  /\ s_rom = [i \in 1..256 |-> 0]

NextTrip ==
  \/ EEBroadcastOnce \/ EELockTry \/ EEReadBlock \/ EEFinish
  \/ CoreTrip \/ ExpTrip \/ EETrip

SpecTrip == InitTrip /\ [][NextTrip]_vars

\* the receiver rendering the resolution of binary Expansion records
SpecFmt == InitDetect /\ [][FmtLoop]_vars

\* the bounded waits against tasks that take and give the guard
InitWait ==
  /\ InitShared /\ InitPollVars /\ InitExtVars /\ InitEEVars
  /\ hw \in HwEE
  /\ eeprom \in {[i \in 1..256 |-> 255]}
  /\ s_rom = [i \in 1..256 |-> 0]

NextWait ==
  \/ LockStart \/ LockIter \/ LockReturn
  \/ WaitStart \/ WaitIter \/ WaitReturn
  \/ GuardTry \/ GuardGive

SpecWait == InitWait /\ [][NextWait]_vars

\* the idle check of poll(), tick after tick, sample by sample
NextRecover == CheckStart \/ CheckIter \/ CheckNext

SpecRecover == InitWait /\ [][NextRecover]_vars

\* a running wait keeps executing its loop
SpecWaitLive ==
  /\ SpecWait
  /\ WF_vars(LockIter) /\ WF_vars(WaitIter)

\* the three bus users with the progress the code guarantees: once the guard
\* is taken, the operation runs on to its release (its loops are bounded)
SpecLive ==
  /\ Init /\ [][Next]_vars
  /\ WF_vars(PollBody) /\ WF_vars(ExtBody)
  /\ WF_vars(EEReadBlock) /\ WF_vars(EEFinish)

\* ================================================================== claims
\* task t is between a successful acquire and its release
InCritical(t) == pc[t] \in {"locked", "read", "unlock"}

\* C1: under every interleaving at most one of the three bus users holds the
\* Bus Lock at any instant (while the reader holds it for its image read an
\* acquire by the poller or the sampler fails, and vice versa).
C1_AtMostOneHolder == Cardinality({t \in Tasks : InCritical(t)}) <= 1

\* no operation is in progress: the guard is free, and the mutex is owned
\* only by a task inside its operation
LockFreeWhenIdle ==
  /\ (g_smbus_mutex # "none" => pc[g_smbus_mutex] = "locked")
  /\ ((pc["poll"] = "idle" /\ pc["ext"] = "idle") => g_smbus_mutex = "none")
  /\ ((\A t \in Tasks : ~InCritical(t)) => ~g_smbus_locked)

\* C2: poll, sendExtStatus and readAll release the Bus Lock before they
\* return on every exit path, so the lock is never held between ticks and a
\* held lock is always eventually released.
C2_ReleasedOnEveryExit ==
  /\ []LockFreeWhenIdle
  /\ ((g_smbus_mutex # "none") ~> (g_smbus_mutex = "none"))
  /\ (g_smbus_locked ~> ~g_smbus_locked)

\* the poller left by a failed read, the sampler by a base-register failure
\* and the reader by a failed chunk read after earlier chunks, all returned
C2_ErrorExitsTaken ==
  /\ ~poll_ret /\ poll_path = "ran"
  /\ ext_path = "fail"
  /\ errFrames = 1 /\ ~s_have_rom /\ s_rom[1] = eeprom[1] /\ eeprom[1] # 0
  /\ \A t \in Tasks : pc[t] = "idle"
  /\ ~g_smbus_locked /\ g_smbus_mutex = "none"

\* C3: every bus read is issued by a task that holds the Bus Lock at that
\* moment: the poller and the sampler own the mutex, the reader's flag is set.
C3_ReadsOnlyUnderLock ==
  /\ (lastBus.who \in {"poll", "ext"} => lastBus.owner = lastBus.who)
  /\ (lastBus.who = "ee" => lastBus.locked)

\* C4: readAll() is invoked at most once whatever its result, and once the
\* read is done no call of broadcastOnce or tick waits for the lock or reads
\* the bus.
C4_ReadAtMostOnce ==
  /\ readAllCalls <= 1
  /\ (s_read_done => (readAllCalls = 1 /\ pc["ee"] = "idle"))

\* a broadcast made after the successful read had ended
C4_RebroadcastAfterRead ==
  /\ s_have_rom /\ readAllCalls = 1
  /\ readAt >= 0 /\ s_last_bcast > readAt

\* C5: when the one-time read fails exactly one EE:ERR=READ_FAIL frame is
\* ever sent, the read is not retried, and no RAW, HDD or labeled frame is
\* sent by any later call.
C5_OneErrFrameOnly ==
  /\ errFrames <= 1
  /\ ((s_read_done /\ ~s_have_rom) =>
        (errFrames = 1 /\ eeSent = {"ERR"} /\ readAllCalls = 1
         /\ lastBcast = <<>>))
  /\ (errFrames = 1 => (~s_have_rom /\ eeSent = {"ERR"}))

\* broadcastOnce called again after the failed read
C5_CallAfterFailure ==
  /\ errFrames = 1 /\ ~s_have_rom
  /\ readAt >= 0 /\ s_last_bcast > readAt

\* the fixed order of the (candidate key, factory length) pairs
PairOrder ==
  <<<<1, 28>>, <<1, 24>>, <<2, 28>>, <<2, 24>>, <<3, 28>>, <<3, 24>>>>

\* pair n of the order validates against the stored checksum of rom
Validates(rom, n) ==
  TryPair(rom, PairOrder[n][1], IF PairOrder[n][2] = 28 THEN 1 ELSE 2).match

\* the factory section decrypted under candidate k over len bytes
DecryptedRegion(rom, k, len) ==
  rc4_crypt(rc4_init(hmac_sha1(candidates[k], ChecksumOf(rom))),
            FactoryOf(rom), 1, len)

UpperHex ==
  {"0","1","2","3","4","5","6","7","8","9","A","B","C","D","E","F"}

\* the value of an uppercase hex character
HexVal(c) ==
  CASE c = "0" -> 0 [] c = "1" -> 1 [] c = "2" -> 2 [] c = "3" -> 3
    [] c = "4" -> 4 [] c = "5" -> 5 [] c = "6" -> 6 [] c = "7" -> 7
    [] c = "8" -> 8 [] c = "9" -> 9 [] c = "A" -> 10 [] c = "B" -> 11
    [] c = "C" -> 12 [] c = "D" -> 13 [] c = "E" -> 14 [] c = "F" -> 15

\* C6: key recovery evaluates the pairs in the fixed order, accepts the
\* first pair that validates, evaluates no pair after it, and the key is
\* bytes 8..23 of that pair's decrypted region as 32 uppercase hex characters.
C6_FirstMatchInOrder ==
  keyRuns = 1 =>
    LET n == Len(tried)
    IN  /\ n >= 1 /\ n <= 6
        /\ tried = SubSeq(PairOrder, 1, n)
        /\ \A i \in 1..(n - 1) : ~Validates(eeprom, i)
        /\ (s_have_hdd <=> Validates(eeprom, n))
        /\ (~s_have_hdd => n = 6)
        /\ (s_have_hdd =>
              LET d == DecryptedRegion(eeprom, tried[n][1], tried[n][2])
              IN  /\ Len(s_hdd_hex) = 32
                  /\ \A i \in 1..32 : s_hdd_hex[i] \in UpperHex
                  /\ \A i \in 1..16 :
                       16 * HexVal(s_hdd_hex[2 * i - 1]) + HexVal(s_hdd_hex[2 * i])
                         = d[8 + i])

\* the third pair accepted although the fourth validates as well
C6_LaterPairAlsoValid ==
  /\ keyRuns = 1 /\ s_have_hdd
  /\ Len(tried) = 3 /\ Validates(eeprom, 4)

\* C7: when no pair validates the key is absent: every broadcast of the
\* read image still carries the RAW frame and no frame carries an HDD value.
C7_AbsentKeyRawOnly ==
  (s_have_rom /\ ~s_have_hdd) =>
    /\ Len(tried) = 6
    /\ \A n \in 1..6 : ~Validates(s_rom, n)
    /\ \E i \in DOMAIN lastBcast :
         lastBcast[i].t = "RAW" /\ lastBcast[i].raw = EncodeRom(s_rom)
    /\ "HDD" \notin eeSent /\ "LBL" \notin eeSent
    /\ \A i \in DOMAIN lastBcast : lastBcast[i].hdd = <<>>

\* an image without key broadcast again after its read
C7_AbsentKeyRebroadcast ==
  /\ s_have_rom /\ ~s_have_hdd
  /\ readAt >= 0 /\ s_last_bcast > readAt
  /\ Len(lastBcast) = 2

\* the kinds of the frames of a broadcast, in order
KindsOf(frames) == [i \in 1..Len(frames) |-> frames[i].t]

\* C8 as stated: after a successful read every broadcast is a RAW frame,
\* an HDD frame iff a key was recovered, then the labeled line.
C8_RawHddLabeled ==
  s_have_rom =>
    KindsOf(lastBcast) =
      <<"RAW">> \o (IF s_have_hdd THEN <<"HDD">> ELSE <<>>) \o <<"LBL">>

\* C8: after a successful read every broadcast is a RAW frame, an HDD frame
\* iff a key was recovered, the RAW frame again, and the labeled
\* SN|MAC|REG|HDD|RAW line iff a key was recovered.
C8_RawHddRawLabeled ==
  s_have_rom =>
    /\ KindsOf(lastBcast) =
         <<"RAW">> \o (IF s_have_hdd THEN <<"HDD">> ELSE <<>>)
         \o <<"RAW">> \o (IF s_have_hdd THEN <<"LBL">> ELSE <<>>)
    /\ \A i \in DOMAIN lastBcast :
         LET f == lastBcast[i]
         IN  /\ (f.t \in {"RAW", "LBL"} => f.raw = s_raw_b64)
             /\ (f.t \in {"HDD", "LBL"} => f.hdd = s_hdd_hex)
             /\ (f.t = "LBL" =>
                   /\ f.sn = cleanSerial(SubSeq(s_rom, 53, 64))
                   /\ f.mac = macToStr(SubSeq(s_rom, 65, 70))
                   /\ f.reg = regionName(s_rom[89]))

\* an image with key broadcast again after its read: four frames
C8_KeyRebroadcast ==
  /\ s_have_rom /\ s_have_hdd
  /\ readAt >= 0 /\ s_last_bcast > readAt
  /\ Len(lastBcast) = 4

\* C9: key recovery run twice on the same image gives the same outcome both
\* times (the same key hex, or absent), whatever the first run left behind;
\* the image itself is as it was.
C9_RecoveryIdempotent ==
  /\ (keyRuns >= 1 => s_rom = eeprom)
  /\ (keyRuns = 2 => <<s_have_hdd, s_hdd_hex>> = firstOutcome)

\* the second run started from the key the first run left
C9_SecondRunWithKey ==
  /\ keyRuns = 2 /\ s_have_hdd /\ firstOutcome[1]
  /\ tried = <<>>

\* C10 as stated: the raw register value behind every cached temperature
\* lies in 0 < v < 100.
C10_RawInsideBand ==
  /\ (cache.cpuTemp # -1000 => (0 < cacheRaw.cpu /\ cacheRaw.cpu < 100))
  /\ (cache.ambientTemp # -1000 => (0 < cacheRaw.amb /\ cacheRaw.amb < 100))

\* C10: every cached temperature c is its sentinel or satisfies 0 < c < 100;
\* c is the raw v itself, or for a board read of the corrected family the
\* correction of a raw v with 0 < v < 120.
C10_StoredInsideBand ==
  /\ (cache.cpuTemp # -1000 =>
        /\ 0 < cache.cpuTemp /\ cache.cpuTemp < 100
        /\ cache.cpuTemp = cacheRaw.cpu)
  /\ (cache.ambientTemp # -1000 =>
        /\ 0 < cache.ambientTemp /\ cache.ambientTemp < 100
        /\ 0 < cacheRaw.amb /\ cacheRaw.amb < 120
        /\ cache.ambientTemp =
             IF cacheRaw.ambCorr THEN Correct16(cacheRaw.amb) ELSE cacheRaw.amb)

\* a raw board value of 110 cached as 84 after the correction
C10_CorrectedAbove100 ==
  /\ cacheRaw.amb = 110 /\ cacheRaw.ambCorr
  /\ cache.ambientTemp = 84

\* C11: a field of the published sample holds an in-range value only if a
\* read of that field has been accepted; otherwise it still holds its
\* sentinel (fan -1, temperatures -1000).
C11_SentinelUntilAccepted ==
  /\ (cache.fanSpeed # -1 => status.fanSpeed # -1)
  /\ (cache.cpuTemp # -1000 => cacheRaw.cpu # -1)
  /\ (cache.ambientTemp # -1000 => cacheRaw.amb # -1)

\* a poll that reached the fan step
FanStepTaken ==
  /\ pc["poll"] = "locked" /\ pc'["poll"] = "idle"
  /\ g_rr_step % 4 = 2 /\ g_rr_step' # g_rr_step

\* C12: a raw fan value r in 0..50 is accepted as r*2; any other read is
\* rejected and leaves the stored percent unchanged; the accepted percent
\* lies in 0..100.
C12_FanPercent ==
  /\ [](status.fanSpeed # -1 =>
          /\ status.fanSpeed \in 0..100
          /\ \E r \in 0..50 : status.fanSpeed = 2 * r)
  /\ [](cache.fanSpeed # -1 => cache.fanSpeed \in 0..100)
  /\ [][FanStepTaken =>
          IF statusRaw'.fan \in 0..50
          THEN poll_ret' /\ status'.fanSpeed = 2 * statusRaw'.fan
          ELSE ~poll_ret' /\ status'.fanSpeed = status.fanSpeed]_vars

\* the largest accepted raw value stored and published as 100 percent
C12_FanFullSpeed ==
  /\ statusRaw.fan = 50 /\ status.fanSpeed = 100
  /\ cache.fanSpeed = 100

\* an Expansion frame has been sent
ExtFrameSent ==
  extPacket # [trayState |-> -1, avPackState |-> -1, picVer |-> -1,
               xboxVer |-> -1, encoderType |-> -1,
               videoWidth |-> -1, videoHeight |-> -1]

\* a sampler pass leaving through the failure exit
ExtPassFailed ==
  pc["ext"] = "locked" /\ pc'["ext"] = "idle" /\ ext_path' = "fail"

\* C13: a pass in which one of the three base reads (tray, AV pack, firmware
\* version) fails sends no Expansion frame and sets the next allowed time
\* to now + 9000 ms + a jitter of 150..399 ms; every frame sent carries
\* tray, AV-pack and firmware-version values all read in the same pass.
C13_NoFrameOnBaseFailure ==
  /\ [](ExtFrameSent =>
          /\ extPacket.trayState = hw.tray
          /\ extPacket.avPackState = hw.av
          /\ extPacket.picVer = hw.pic)
  /\ [][ExtPassFailed =>
          /\ extPacket' = extPacket /\ extFrames' = extFrames
          /\ \E j \in 150..399 :
               g_ext_next_allowed_ms' = ext_now + 9000 + j]_vars
  /\ [][pc["ext"] = "locked" /\ pc'["ext"] = "idle" =>
          ext_path' \in {"fail", "sent"}]_vars

\* a pass failed after an earlier pass had sent a frame
C13_FailedAfterSend ==
  /\ ExtFrameSent /\ extFrames > 0 /\ pc["ext"] = "idle" /\ ext_path = "fail"
  /\ g_ext_next_allowed_ms = ext_now + 9000 + ExtJitter(ext_now)
  /\ ext_now > SMBUS_EXT_STARTUP_GRACE_MS

\* the probe order of encoder detection
ProbeOrder == <<ENC_CONEXANT, ENC_FOCUS, ENC_XCALIBUR>>

\* position in the probe order of the first address in answers, 0 if none
FirstAnswer(answers) ==
  IF \E i \in 1..3 : ProbeOrder[i] \in answers
  THEN CHOOSE i \in 1..3 :
         /\ ProbeOrder[i] \in answers
         /\ \A j \in 1..(i - 1) : ProbeOrder[j] \notin answers
  ELSE 0

\* C14: encoder detection runs at most once per lifetime; it probes 0x45,
\* 0x6A, 0x70 in that order and caches the first that answers (unknown if
\* none does); once it has run the cached kind never changes and no further
\* probe is issued.
C14_DetectOnce ==
  /\ [](~s_encoder_known => detectProbes = <<>> /\ s_encoder_cache = -1)
  /\ [](s_encoder_known =>
          LET i == FirstAnswer(detectAnswers)
          IN  /\ detectProbes = SubSeq(ProbeOrder, 1, IF i = 0 THEN 3 ELSE i)
              /\ s_encoder_cache = IF i = 0 THEN -1 ELSE ProbeOrder[i])
  /\ [][s_encoder_known =>
          /\ s_encoder_known'
          /\ s_encoder_cache' = s_encoder_cache
          /\ detectProbes' = detectProbes]_vars

\* unknown was cached although the encoder would answer now, and a later
\* pass has sent a frame
C14_UnknownKept ==
  /\ s_encoder_known /\ s_encoder_cache = -1 /\ hw.acks # {}
  /\ detectAnswers = {} /\ extFrames >= 2

\* two addresses answered and the earlier one in the order was cached
C14_FirstOfTwo ==
  /\ s_encoder_known /\ detectAnswers = {ENC_FOCUS, ENC_XCALIBUR}
  /\ s_encoder_cache = ENC_FOCUS /\ extFrames >= 2

\* C15: every read transaction ends its register-select phase with a STOP
\* before the data phase; no component, the encoder heuristics included,
\* issues a combined repeated-start read.
C15_StopOnlyReads == ~rsIssued

\* one pass of lock_with_timeout's loop has just run
LockIterTaken ==
  /\ w_fn = "lock" /\ w_ret = "running"
  /\ (w_ret' # "running" \/ w_elapsed' # w_elapsed)

\* C16: no acquire or wait blocks indefinitely.  The zero-wait try is one
\* step and succeeds exactly if the guard is free; the reader's bounded wait
\* tries at least once, returns true as soon as a try finds the flag free
\* and false once its timeout has elapsed; the wait for idle lines returns
\* true after three consecutive idle samples and false once its bounded wait
\* has elapsed.
C16_WaitsTerminate ==
  /\ (w_ret = "running") ~> (w_ret \in {"true", "false"})
  /\ [](w_fn = "lock" /\ w_ret \in {"true", "false"} => w_tried)
  /\ [][LockIterTaken =>
          IF ~g_smbus_locked
          THEN w_ret' = "true" /\ g_smbus_locked' /\ w_elapsed' = w_elapsed
          ELSE w_ret' = IF ElapsedMs(w_elapsed') < w_timeout
                        THEN "running" ELSE "false"]_vars
  /\ [](w_ret = "false" => ElapsedMs(w_elapsed) >= w_timeout)
  /\ [](w_fn = "lock" /\ w_ret = "running" /\ w_tried =>
          ElapsedMs(w_elapsed) < w_timeout)
  /\ [](w_fn = "wait" /\ w_ret = "true" =>
          w_stable = 3 /\ ElapsedMs(w_elapsed) < w_timeout)
  /\ [](w_ret = "running" => w_elapsed < 1000 * w_timeout + 3000)
  /\ [][try_ret' # try_ret =>
          /\ try_ret'.ok = (g_smbus_mutex = "none")
          /\ UNCHANGED <<w_fn, w_ret, w_elapsed>>]_vars

\* the default 500 ms ran out with the flag held throughout
C16_LockTimedOut ==
  /\ w_fn = "lock" /\ w_ret = "false" /\ w_timeout = 500
  /\ w_elapsed >= 500000 /\ g_smbus_locked

\* the lines never stayed idle for three samples within 15 ms
C16_WaitTimedOut ==
  /\ w_fn = "wait" /\ w_ret = "false" /\ w_timeout = 15
  /\ w_elapsed >= 15000

\* the sampler finished a pass of bus reads less than d ms before t
SamplerReadWithin(t, d) ==
  /\ pc["ext"] = "idle" /\ ext_path \in {"sent", "fail"}
  /\ t - ext_now < d

\* the poller's last marked read is less than d ms before t
PollerReadWithin(t, d) ==
  /\ g_last_smbus_activity_ms # 0
  /\ t - g_last_smbus_activity_ms < d

\* C17: a Core frame is sent only at a data check at which the cached
\* sample (fan, cpu, ambient, app name) differs from the last-sent value and
\* the SMBus has been quiet for at least the minimum quiet period; after the
\* send the last-sent value equals the cache, so no two consecutive Core
\* frames are identical.
C17_SentOnlyWhenChangedAndQuiet ==
  [][coreFrames' # coreFrames =>
       /\ now >= nextDataCheck
       /\ status_changed(cache, g_last_sent)
       /\ ~PollerReadWithin(now, SMBUS_QUIET_BEFORE_UDP_MS)
       /\ ~SamplerReadWithin(now, SMBUS_QUIET_BEFORE_UDP_MS)
       /\ g_last_sent' = cache
       /\ g_last_sent' # g_last_sent]_vars

\* C17 with the quiet period measured as the code measures it: from the
\* poller's last successful read only
C17_SentOnlyWhenChangedAndPollerQuiet ==
  [][coreFrames' # coreFrames =>
       /\ now >= nextDataCheck
       /\ status_changed(cache, g_last_sent)
       /\ ~PollerReadWithin(now, SMBUS_QUIET_BEFORE_UDP_MS)
       /\ g_last_sent' = cache
       /\ g_last_sent' # g_last_sent]_vars

\* the channels of the receiver
Channels == {"core", "expansion", "eeprom"}

\* whether the loop() that found datagrams d accepted one on channel ch
AcceptedOn(ch, d) ==
  CASE ch = "core" -> CoreAccepts(d.core)
    [] ch = "expansion" -> ExpAccepts(d.exp)
    [] ch = "eeprom" -> EEAccepts(d.ee)

\* what a consumer asking about channel ch is told
PendingFor(ch) == hasPacket

\* C18: the receiver keeps an independent pending-update flag per channel
\* (core, expansion, configuration memory); accepting a frame on a channel
\* sets only that channel's flag and acknowledging a channel clears only
\* that channel's flag.
C18_PerChannelFlags ==
  /\ [][rxTick' # rxTick =>
          \A ch \in Channels :
            ~AcceptedOn(ch, rxIn') => PendingFor(ch)' = PendingFor(ch)]_vars
  /\ [][rxTick' = rxTick /\ gotPacket /\ ~gotPacket' =>
          \E ch \in Channels :
            \A other \in Channels \ {ch} :
              PendingFor(other)' = PendingFor(other)]_vars

\* C19: the Core channel decodes only a datagram of exactly 44 bytes; a
\* datagram of any other size is drained and discarded, leaving every field
\* and the pending flag as they were.
C19_CoreOnly44 ==
  [][rxTick' # rxTick /\ rxIn'.core # <<>> =>
       IF Len(rxIn'.core) = 44
       THEN /\ lastStatus'.fanSpeed = Int32At(rxIn'.core, 0)
            /\ lastStatus'.cpuTemp = Int32At(rxIn'.core, 4)
            /\ lastStatus'.ambientTemp = Int32At(rxIn'.core, 8)
            /\ gotPacket'
            /\ (rxIn'.core = CoreGood =>
                  /\ lastStatus'.fanSpeed = 50 /\ lastStatus'.cpuTemp = 45
                  /\ lastStatus'.ambientTemp = -1000
                  /\ lastStatus'.currentApp = <<68>>)
       ELSE rxIn'.exp = <<>> /\ rxIn'.ee = <<>> =>
              /\ lastStatus' = lastStatus
              /\ gotPacket' = gotPacket]_vars

\* a datagram one byte short arrived after a whole one had been decoded and
\* acknowledged
C19_ShortAfterGood ==
  /\ rxIn.core = SubSeq(CoreGood, 1, 43)
  /\ lastStatus.fanSpeed = 50 /\ lastStatus.cpuTemp = 45
  /\ ~gotPacket

\* a datagram one byte too long arrived first
C19_LongFirst ==
  /\ Len(rxIn.core) = 45
  /\ lastStatus.fanSpeed = -1 /\ ~gotPacket

\* the seven fields of the Expansion record
ExpFields ==
  {"trayState", "avPackState", "picVersion", "xboxVersion", "videoWidth",
   "videoHeight", "encoderType"}

\* the fields a frame can carry: every field but the rendered resolution text
FrameFields == (DOMAIN lastStatus) \ {"resolution"}

\* the fields a legacy key names
KeyFields(key) ==
  CASE key = Ascii(<<"A","P","P">>) -> {"currentApp"}
    [] key = Ascii(<<"R","E","S">>) -> {"videoWidth", "videoHeight"}
    [] key = Ascii(<<"W","I","D","T","H">>) -> {"videoWidth"}
    [] key = Ascii(<<"H","E","I","G","H","T">>) -> {"videoHeight"}
    [] key = Ascii(<<"E","N","C","O","D","E","R">>) -> {"encoderType"}
    [] key \in {Ascii(<<"A","V">>), Ascii(<<"A","V","P","A","C","K">>),
                Ascii(<<"A","V","S","T","A","T","E">>)} -> {"avPackState"}
    [] key = Ascii(<<"P","I","C">>) -> {"picVersion"}
    [] key \in {Ascii(<<"X","B","O","X","V","E","R">>),
                Ascii(<<"X","B","O","X","V","E","R","S","I","O","N">>)} ->
         {"xboxVersion"}
    [] key = Ascii(<<"T","R","A","Y">>) -> {"trayState"}
    [] OTHER -> {}

\* the fields named by the keys of a legacy text, keys read without regard
\* to case or surrounding blanks
CarriedBy(text) ==
  LET toks == Tokens(text, 59)
  IN  UNION {KeyFields(Upper(trim_inplace(
                 SubSeq(toks[i], 1, strchr(toks[i], 61) - 1)))) :
               i \in {k \in 1..Len(toks) : strchr(toks[k], 61) > 0}}

C20_BinaryAfterText ==
  /\ rxIn.exp = ExpGood /\ rxIn.core = <<>> /\ rxIn.ee = <<>>
  /\ lastStatus.trayState = 16 /\ lastStatus.picVersion = 80
  /\ lastStatus.currentApp = <<88>>

Abs(x) == IF x < 0 THEN -x ELSE x

\* the mode label the bands give to (w, h) under AV pack av; "" for none
BandLabel(w, h, av) ==
  IF Abs(w - 1280) <= 32 /\ Abs(h - 720) <= 8 THEN "720p"
  ELSE IF Abs(w - 1920) <= 64 /\ Abs(h - 1080) <= 16 THEN "1080i"
  ELSE IF Abs(h - 480) <= 16 THEN (IF avIsHDTV(av) THEN "480p" ELSE "480i")
  ELSE IF Abs(h - 576) <= 16 THEN (IF avIsHDTV(av) THEN "576p" ELSE "576i")
  ELSE ""

\* the mode label of the rendered text; "" when it shows none
ModeOf(res) == IF res.kind = "fmt" THEN res.mode ELSE ""

\* C22: the resolution formatter matches by tolerance bands, not equality:
\* 720p for |w-1280| <= 32 and |h-720| <= 8, else 1080i for |w-1920| <= 64
\* and |h-1080| <= 16, else 480p/480i for |h-480| <= 16 and 576p/576i for
\* |h-576| <= 16 (p when the AV pack indicates HDTV), else no mode label;
\* (1276, 722) with an HDTV AV pack is 720p.
C22_ToleranceBands ==
  rxIn.exp # <<>> =>
    /\ ModeOf(lastStatus.resolution) =
         BandLabel(lastStatus.videoWidth, lastStatus.videoHeight,
                   lastStatus.avPackState)
    /\ (lastStatus.videoWidth = 1276 /\ lastStatus.videoHeight = 722
          /\ lastStatus.avPackState = 1 =>
             lastStatus.resolution =
               [kind |-> "fmt", w |-> 1276, h |-> 722, mode |-> "720p"])

\* (1276, 722) arrived with the HDTV AV pack
C22_NearHd ==
  /\ rxIn.exp # <<>>
  /\ lastStatus.videoWidth = 1276 /\ lastStatus.videoHeight = 722
  /\ lastStatus.avPackState = 1
  /\ ModeOf(lastStatus.resolution) = "720p"

\* a poll() call that got past the pacing test and found the guard taken
PollLockRefused ==
  pc["poll"] = "idle" /\ g_next_allowed_ms' # g_next_allowed_ms

\* C23: a poll() that cannot acquire the guard is a failed tick like a
\* failed transaction: poll reports failure, the failure streak grows and
\* the next attempt is scheduled by the backoff delay, not the nominal
\* interval.
C23_RefusedLockIsFailure ==
  [][PollLockRefused =>
       /\ ~poll_ret'
       /\ g_err_streak' = (IF g_err_streak < 5 THEN g_err_streak + 1
                           ELSE g_err_streak)
       /\ g_next_allowed_ms' =
            now + PollBackoff(g_err_streak') + PollJitter(now)]_vars

\* C24: before any read burst by any component (poller tick, sampler pass,
\* configuration-memory image read) the bus lines are observed idle for the
\* required number of consecutive samples; when the bus does not become
\* idle even after the recovery attempt, no register read is issued in that
\* tick.
C24_IdleBeforeEveryBurst == lastBus.who # "none" => lastBus.idle

\* C25: wait_bus_free reports idle only after 3 samples in a row with both
\* lines high. maybe_recover_wire re-initialises Wire exactly when the
\* wait it makes itself has timed out for the third time since stuck_streak
\* was last 0, and then sets stuck_streak to 0; an idle result of that wait
\* also sets it to 0. The first and the second wait of poll() never change
\* stuck_streak, whatever they observe.
C25_RecoverAfterThree ==
  /\ [](w_fn \in CheckWaits /\ w_ret = "true"
          => poll_obs.last3 = <<TRUE, TRUE, TRUE>>)
  /\ [](stuck_streak \in 0..2)
  /\ [][w_fn = "recover" /\ w_fn' = "second"
          => /\ (w_ret = "false" /\ stuck_streak = 2
                   => stuck_streak' = 0
                      /\ poll_obs'.reinitRun = poll_obs'.wedged)
             /\ (w_ret = "false" /\ stuck_streak < 2
                   => stuck_streak' = stuck_streak + 1
                      /\ poll_obs'.reinitRun = poll_obs.reinitRun)
             /\ (w_ret = "true"
                   => stuck_streak' = 0
                      /\ poll_obs'.reinitRun = poll_obs.reinitRun)]_vars
  /\ [][w_fn # "recover"
          => stuck_streak' = stuck_streak
             /\ poll_obs'.reinitRun = poll_obs.reinitRun]_vars

\* Wire was re-initialised although one of the two observations before the
\* last wedged one found the bus idle
C25_ReinitAcrossIdle ==
  poll_obs.reinitRun \in 1..2 /\ stuck_streak = 0 /\ w_fn = "second"

\* C25 as stated: a re-initialisation comes only after 3 wedged observations
\* in a row
C25_OnlyAfterThreeInARow ==
  poll_obs.reinitRun # -1 => poll_obs.reinitRun >= 3

\* a tick of poll() that got the guard has run to its return
PollTick == pc["poll"] = "locked" /\ pc'["poll"] = "idle"

\* C26: the ticks that get to the read stage perform the steps CPU
\* temperature, board temperature, fan speed, idle in this cyclic order,
\* one step a tick, the first tick after begin() with the CPU temperature
\* and also across the wrap of the 8-bit counter from 255 to 0; a tick reads
\* at most one sensor register, the one of its step, and stores no value
\* but that of its step; a tick that does not get to the read stage reads
\* none and leaves the order where it was.
C26_RoundRobinOrder ==
  /\ [](Cardinality(poll_obs.regs) <= 1)
  /\ [][PollTick /\ poll_obs'.idle
          => /\ poll_obs'.step =
                  IF poll_obs.step = -1 THEN 0 ELSE (poll_obs.step + 1) % 4
             /\ poll_obs'.regs =
                  IF poll_obs'.step = 0 THEN {"cpu"}
                  ELSE IF poll_obs'.step = 1 THEN {"board"}
                  ELSE IF poll_obs'.step = 2 THEN {"fan"} ELSE {}
             /\ (status'.cpuTemp # status.cpuTemp => poll_obs'.step = 0)
             /\ (status'.boardTemp # status.boardTemp
                   => poll_obs'.step = 1)
             /\ (status'.fanSpeed # status.fanSpeed
                   => poll_obs'.step = 2)]_vars
  /\ [][PollTick /\ ~poll_obs'.idle
          => /\ poll_obs'.step = poll_obs.step
             /\ poll_obs'.regs = {}
             /\ status' = status]_vars

\* the counter has wrapped (it is 1 again although a fan speed, read at
\* step 2, is stored) and the tick after the wrap has read the CPU
\* temperature
C26_AfterWrap ==
  g_rr_step = 1 /\ poll_obs.step = 0 /\ poll_obs.regs = {"cpu"}
  /\ status.fanSpeed = 80

\* C27: a tick whose sensor read failed, or returned a value out of range
\* (120 or more for either temperature, more than 50 for the fan byte),
\* leaves cpuTemp, boardTemp and fanSpeed as they were, returns false and
\* schedules the next tick a backoff of 8 to 60 s plus the jitter away.
C27_BadReadKeepsValues ==
  [][PollTick /\ poll_obs'.regs # {}
       /\ (\/ poll_obs'.rd = -1
           \/ poll_obs'.regs \subseteq {"cpu", "board"} /\ poll_obs'.rd >= 120
           \/ poll_obs'.regs = {"fan"} /\ poll_obs'.rd > 50)
       => /\ status' = status
          /\ poll_ret' = FALSE
          /\ g_err_streak' >= 1
          /\ g_next_allowed_ms' - poll_now - (100 + ((poll_now % 256) % 200))
               \in {8000, 16000, 32000, 60000}]_vars

\* a fan byte above 50 has been read and refused while the temperatures of
\* the two ticks before are stored
C27_FanByteRefused ==
  /\ poll_obs.regs = {"fan"} /\ poll_obs.rd = 60
  /\ status.cpuTemp = 40 /\ status.boardTemp = 60
  /\ poll_ret = FALSE /\ pc["poll"] = "idle"

\* the retry delay after n failed ticks in a row: min(8000 * 2^(min(n,5)-1),
\* 60000)
RetryDelay(n) ==
  LET k == IF n < 5 THEN n ELSE 5
      d == 8000 * (2 ^ (k - 1))
  IN  IF d < 60000 THEN d ELSE 60000

\* C28: with n the number of failed ticks in a row up to and including this
\* one, a failed tick schedules the next at now + min(8000 * 2^(min(n,5)-1),
\* 60000) + a jitter of 100..299 ms; the streak is min(n, 5) and so never
\* above 5, and the delay of a further failure is never smaller; a good
\* tick leaves the streak at 0 and schedules the next at now + 500 + a
\* jitter of 100..299 ms.
C28_RetryDelay ==
  /\ [](g_err_streak \in 0..5)
  /\ [][PollTick /\ poll_ret' = FALSE
          => /\ poll_obs'.fails = poll_obs.fails + 1
             /\ g_err_streak' =
                  IF poll_obs'.fails < 5 THEN poll_obs'.fails ELSE 5
             /\ g_next_allowed_ms' - poll_now - RetryDelay(poll_obs'.fails)
                  \in 100..299
             /\ (poll_obs.fails >= 1
                   => RetryDelay(poll_obs'.fails)
                        >= RetryDelay(poll_obs.fails))]_vars
  /\ [][PollTick /\ poll_ret' = TRUE
          => /\ poll_obs'.fails = 0
             /\ g_err_streak' = 0
             /\ g_next_allowed_ms' - poll_now - 500 \in 100..299]_vars

\* a sixth failure in a row has been scheduled with the capped delay
C28_SixthFailure ==
  /\ poll_obs.fails = 6 /\ g_err_streak = 5 /\ poll_ret = FALSE
  /\ g_next_allowed_ms - poll_now \in 60100..60299

\* C29: after begin() the poller probes for the 1.6 family at most once,
\* not before 12000 ms have passed since begin() and only in a tick that
\* found the lines idle; from the probe on, known and its result stay as
\* they are; and a board temperature is stored changed from the byte read
\* only when the family was detected.
C29_ProbeOnce ==
  /\ [](poll_obs.probes <= 1)
  /\ [](g_is16_known <=> poll_obs.probes = 1)
  /\ [](g_is16_cached => g_is16_known)
  /\ [][poll_obs'.probes # poll_obs.probes
          => /\ PollTick
             /\ poll_now - g_first_ms >= 12000
             /\ poll_obs'.idle]_vars
  /\ [][g_is16_known
          => g_is16_known' /\ g_is16_cached' = g_is16_cached]_vars
  /\ [][PollTick /\ status'.boardTemp # status.boardTemp
          => /\ poll_obs'.regs = {"board"}
             /\ (status'.boardTemp # poll_obs'.rd => g_is16_cached')]_vars

\* the probe has found the 1.6 family and a board temperature read after it
\* is stored corrected (40 read, 28 stored)
C29_CorrectedAfterProbe ==
  /\ g_is16_known /\ g_is16_cached /\ poll_obs.probes = 1
  /\ poll_obs.regs = {"board"} /\ poll_obs.rd = 40
  /\ status.boardTemp = 28

\* C30: the poller and the sampler hold the bus guard, and have made a bus
\* transaction, only at 10000 ms or more after their begin(); and as long
\* as now is below the next allowed time of one of them and it is not in
\* the middle of a pass, no step changes its state or gives it the guard.
C30_GraceBeforeBus ==
  /\ [](g_smbus_mutex = "poll" \/ pc["poll"] = "locked"
          => now >= g_first_ms + 10000)
  /\ [](g_smbus_mutex = "ext" \/ pc["ext"] = "locked"
          => now >= g_ext_first_ms + 10000)
  /\ [](now < g_first_ms + 10000
          => lastBus.who # "poll" /\ poll_path = "none")
  /\ [](now < g_ext_first_ms + 10000
          => lastBus.who # "ext" /\ ext_path = "none")
  /\ [][pc["poll"] = "idle" /\ now < g_next_allowed_ms
          => /\ UNCHANGED <<g_first_ms, g_next_allowed_ms, g_err_streak,
                            g_rr_step, g_is16_known, g_is16_cached,
                            stuck_streak, g_last_smbus_activity_ms, status,
                            statusRaw, poll_path>>
             /\ pc'["poll"] = "idle"
             /\ g_smbus_mutex' # "poll"]_vars
  /\ [][pc["ext"] = "idle" /\ now < g_ext_next_allowed_ms
          => /\ UNCHANGED extVars
             /\ pc'["ext"] = "idle"
             /\ g_smbus_mutex' # "ext"]_vars

\* after the grace the sampler has used the bus and a tick of the poller
\* has failed; a call of poll() before the retry time has returned true and
\* left the failure streak and the retry time alone
C30_EarlyCallAfterFailure ==
  /\ lastBus.who = "ext" /\ poll_path = "ran" /\ g_err_streak = 1
  /\ poll_ret = TRUE /\ now < g_next_allowed_ms /\ pc["poll"] = "idle"

\* C31: a pass of the sampler always issues its three base reads, tray, AV
\* pack and firmware version, whichever of them fail; if any of them failed
\* the pass ends there, with no console-version, detection or resolution
\* read and no frame; if none failed the console-version read follows.
C31_AbortAfterBaseGroup ==
  /\ (ext_obs.failed # {}
       => ext_obs.reads = <<"tray", "av", "pic">> /\ ext_path = "fail")
  /\ (ext_obs.failed = {} /\ ext_obs.reads # <<>>
       => /\ Len(ext_obs.reads) >= 4
          /\ SubSeq(ext_obs.reads, 1, 4) = <<"tray", "av", "pic", "ver">>
          /\ ext_path = "sent")

\* the tray read failed and the AV-pack and firmware-version reads were
\* issued all the same
C31_ReadsAfterTrayFailure ==
  ext_obs.failed = {"tray"} /\ ext_obs.reads = <<"tray", "av", "pic">>

\* C31 as stated: no read is issued after the first base read that failed
C31_NoReadAfterFirstFailure ==
  ext_obs.failed # {}
    => Len(ext_obs.reads) = IF "tray" \in ext_obs.failed THEN 1
                            ELSE IF "av" \in ext_obs.failed THEN 2 ELSE 3

\* the time from the latest pass to the next, without the jitter of
\* 150 + ((now & 0xFF) % 250)
PassDelay ==
  g_ext_next_allowed_ms - ext_now - (150 + ((ext_now % 256) % 250))

\* C32: after a pass that sent a frame the next pass is 4000 ms plus a
\* jitter of 150..399 ms away when the console-revision read of the pass
\* succeeded with a byte of 0..6, and 9000 ms plus the jitter away when that
\* read failed or returned a larger byte; after a pass in which a base read
\* failed it is 9000 ms plus the jitter away.
C32_CadenceByRevisionRead ==
  pc["ext"] = "idle" /\ ext_obs.reads # <<>>
    => /\ 150 + ((ext_now % 256) % 250) \in 150..399
       /\ (ext_path = "sent" /\ ext_obs.ver \in 0..6 => PassDelay = 4000)
       /\ (ext_path = "sent" /\ ext_obs.ver \notin 0..6 => PassDelay = 9000)
       /\ (ext_path = "fail" => PassDelay = 9000 /\ ext_obs.failed # {})

\* a frame has been sent by a console that reports no revision, and the
\* next pass is 9 s away
C32_SentWithBackoff ==
  /\ pc["ext"] = "idle" /\ ext_path = "sent" /\ ext_obs.ver = 255
  /\ ext_obs.failed = {} /\ PassDelay = 9000

\* C32 as stated: every pass that sent a frame is followed at the nominal
\* cadence, and the long delay comes only after a failed base read
C32_NominalAfterEveryFrame ==
  pc["ext"] = "idle" /\ ext_obs.reads # <<>>
    => /\ (ext_path = "sent" => PassDelay = 4000)
       /\ (PassDelay = 9000 => ext_obs.failed # {})

\* C33: the revision in a frame is the byte of the console-revision read
\* when that read succeeded with 0..6, otherwise 6 when the cached encoder is
\* the one at address 0x70 (112), otherwise -1; it is never outside -1..6.
C33_RevisionPolicy ==
  /\ extPacket.xboxVer \in -1..6
  /\ (pc["ext"] = "idle" /\ ext_path = "sent" /\ ext_obs.reads # <<>>
       => extPacket.xboxVer =
            IF ext_obs.ver >= 0 /\ ext_obs.ver <= 6 THEN ext_obs.ver
            ELSE IF s_encoder_cache = 112 THEN 6 ELSE -1)

\* the SMC returned 255 as the revision and the frame says 6, the encoder
\* being the one at 0x70
C33_GuessedFromEncoder ==
  /\ pc["ext"] = "idle" /\ ext_path = "sent" /\ ext_obs.ver = 255
  /\ s_encoder_cache = 112 /\ extPacket.xboxVer = 6

\* C34: two reads of the mode register are never less than 12000 ms apart,
\* none is made before the pass at 10000 ms after begin() or later, and none
\* by a pass whose cached encoder is not the one at address 0x70 (112).
C34_ModeProbePeriod ==
  /\ (ext_obs.modeGap # -1 => ext_obs.modeGap >= 12000)
  /\ (ext_obs.modeAt # -1 => ext_obs.modeAt >= g_ext_first_ms + 10000)
  /\ (pc["ext"] = "idle"
        /\ \E i \in 1..Len(ext_obs.reads) : ext_obs.reads[i] = "mode")
       => s_encoder_cache = 112 /\ ext_obs.modeAt = ext_now

\* the mode register has been read a second time, less than 13 s after the
\* first
C34_SecondProbe ==
  ext_obs.modeGap \in 12000..12999 /\ ext_obs.probe # "none"

\* the size the fixed mode table gives for a code of 0..5
ModeTable(code) ==
  IF code \in {0, 1} THEN <<720, 480>>
  ELSE IF code \in {2, 3} THEN <<720, 576>>
  ELSE IF code = 4 THEN <<1280, 720>> ELSE <<1920, 1080>>

\* the size of the latest frame
SentSize == <<extPacket.videoWidth, extPacket.videoHeight>>

\* a pass of a console whose encoder is the one at 0x70 has just sent a
\* frame
XcalFrame ==
  pc["ext"] = "idle" /\ ext_path = "sent" /\ s_encoder_cache = 112

C36_FocusSizeInBand ==
  pc["ext"] = "idle" /\ ext_path = "sent" /\ s_encoder_cache = 106
    => SentSize \in {<<720, 480>>, <<720, 576>>, <<1280, 720>>,
                     <<1920, 1080>>}

\* C37: the activity time follows the bus reads of every component: when a
\* pass of the sampler has read its registers and sent its frame, the time
\* returned by smbus_last_activity_ms() is the time of that pass.
C37_SamplerMarksActivity ==
  [][pc["ext"] = "locked" /\ pc'["ext"] = "idle" /\ ext_path' = "sent"
       => g_last_smbus_activity_ms' = now]_vars


\* C38: once the image is cached the image bytes, the key hex and the base64
\* text never change, every rebroadcast of tick() carries the frames of the
\* broadcast before it (hence of the first), and tick() sends only with a
\* cached image and at least EEPROM_REBROADCAST_MS after the last broadcast.
C38_SnapshotFrozen ==
  [][/\ (s_have_rom =>
           /\ s_have_rom'
           /\ s_rom' = s_rom
           /\ s_have_hdd' = s_have_hdd
           /\ s_hdd_hex' = s_hdd_hex
           /\ s_raw_b64' = s_raw_b64)
     /\ (s_have_rom => lastBcast' = lastBcast)
     /\ (EETick =>
           /\ s_have_rom
           /\ now - s_last_bcast >= EEPROM_REBROADCAST_MS
           /\ lastBcast # <<>>
           /\ lastBcast' = lastBcast
           /\ s_last_bcast' = now)]_vars

\* a rebroadcast exactly one period after the read, key recovered
C38_RebroadcastOnePeriodLater ==
  /\ s_have_rom /\ s_have_hdd /\ readAt >= 0
  /\ s_last_bcast = readAt + EEPROM_REBROADCAST_MS
  /\ now = s_last_bcast + 5000
  /\ Len(lastBcast) = 4


\* C39: on a connected network a data check that finds the cache changed
\* sends it when the bus is quiet and is otherwise tried again 150..300 ms
\* later; the last-sent value moves only with a frame that carries the
\* cache; and a changed cache is eventually sent while checks remain.
C39_ChangedIsSent ==
  /\ [][(nextDataCheck' # nextDataCheck /\ status_changed(cache, g_last_sent)) =>
          IF bus_quiet_enough(now)
          THEN /\ coreFrames' = coreFrames + 1
               /\ g_last_sent' = cache
          ELSE /\ nextDataCheck' - now \in 150..300
               /\ g_last_sent' = g_last_sent
               /\ coreFrames' = coreFrames]_vars
  /\ [][g_last_sent' # g_last_sent =>
          (g_last_sent' = cache /\ coreFrames' = coreFrames + 1)]_vars
  /\ ((status_changed(cache, g_last_sent) /\ nextDataCheck <= MaxCheckNow)
        ~> (g_last_sent = cache \/ nextDataCheck > MaxCheckNow))

\* a frame sent at the retry that followed a check on a busy bus
C39_SentAtRetry ==
  /\ coreFrames >= 1 /\ g_last_sent = cache
  /\ g_last_smbus_activity_ms > 0
  /\ now - g_last_smbus_activity_ms \in 150..300
  /\ nextDataCheck >= now + UDP_CHECK_INTERVAL_MS


\* the scheduled time has come: (int32_t)(t - next) >= 0
Elapsed32(t, next) == Sub32(t, next)[1] < 32768

\* C40: for the poller, the sampler and the publisher the pacing test holds
\* the task back exactly while its scheduled delay has not elapsed, also
\* when millis() or the scheduled time has wrapped.
C40_PacingAcrossWrap ==
  /\ TooEarly32(pace.now, pace.g_next_allowed_ms)
       <=> ~Elapsed32(pace.now, pace.g_next_allowed_ms)
  /\ TooEarly32(pace.now, pace.g_ext_next_allowed_ms)
       <=> ~Elapsed32(pace.now, pace.g_ext_next_allowed_ms)
  /\ TooEarly32(pace.now, pace.nextDataCheck)
       <=> ~Elapsed32(pace.now, pace.nextDataCheck)

====
